---------------------------- MODULE Spec2Model ----------------------------
(***************************************************************************)
(* Model of the enrichment pipeline of the VC intelligence interface:      *)
(* the POST handler of src/src/app/api/enrich/route.ts, run by concurrent   *)
(* invocations against the companies table of                               *)
(* src/supabase/migrations/initial_schema.sql.                              *)
(*                                                                         *)
(* Strings the code inspects (URLs, scraped text) are sequences of          *)
(* one-character strings, so that trim, startsWith, replace and length      *)
(* are computed as the code computes them.  Strings the code only passes    *)
(* on (summaries, error texts of the providers) are atoms.  The prompts     *)
(* built from the content (route.ts:50-65, 186) are not part of the state:  *)
(* a provider replies any of its outcomes, whatever the prompt.             *)
(***************************************************************************)
EXTENDS Integers, Sequences, FiniteSets, TLC

\* ------------------------------------------------------------------ bounds

\* Invocations of POST /api/enrich started in one behaviour of Spec, where
\* one invocation ends before the next starts.
MaxRuns == 3

\* Last value of the clock in Spec; one tick is half an hour.
MaxTime == 3

\* The same two bounds for SpecRace, where two invocations overlap.
MaxRaceRuns == 2

MaxRaceTime == 1

\* ------------------------------------------------------- program constants

\* route.ts:117-119: hoursSinceEnrichment < 1, in ticks of half an hour.
Hour == 2

\* route.ts:159: markdownContent.trim().length < 50
MinContentLen == 50

\* ----------------------------------------------------------------- strings

\* JavaScript's undefined: a key a parsed reply does not have.
Undefined == "undefined"

Rep(c, n) == [i \in 1..n |-> c]

IsSpace(c) == c = " "

RECURSIVE TrimStart(_)
TrimStart(s) ==
    IF s # <<>> /\ IsSpace(Head(s)) THEN TrimStart(Tail(s)) ELSE s

RECURSIVE TrimEnd(_)
TrimEnd(s) ==
    IF s # <<>> /\ IsSpace(s[Len(s)]) THEN TrimEnd(SubSeq(s, 1, Len(s) - 1)) ELSE s

\* String.prototype.trim
Trim(s) == TrimEnd(TrimStart(s))

\* String.prototype.startsWith
StartsWith(s, p) == Len(s) >= Len(p) /\ SubSeq(s, 1, Len(p)) = p

\* First index of character c in s, 0 when absent.
IndexOf(s, c) ==
    IF \E i \in 1..Len(s) : s[i] = c
    THEN CHOOSE i \in 1..Len(s) : s[i] = c /\ \A j \in 1..(i - 1) : s[j] # c
    ELSE 0

\* s.replace(/\/+$/, '')
RECURSIVE StripTrailingSlashes(_)
StripTrailingSlashes(s) ==
    IF s # <<>> /\ s[Len(s)] = "/"
    THEN StripTrailingSlashes(SubSeq(s, 1, Len(s) - 1))
    ELSE s

\* s.replace(/^www\./, '')
StripWww(s) ==
    IF StartsWith(s, <<"w", "w", "w", ".">>) THEN SubSeq(s, 5, Len(s)) ELSE s

RECURSIVE SkipSlashes(_)
SkipSlashes(s) ==
    IF s # <<>> /\ Head(s) = "/" THEN SkipSlashes(Tail(s)) ELSE s

SchemeChars == {"a", "b", "c", "h", "o", "p", "s", "t", "w", "."}

\* The parts new URL(s) splits s into, for strings over lower-case letters,
\* ".", "/", ":" and " ": the scheme before the first colon, and the host.
\* For http and https the slashes after the colon are skipped and the host
\* runs to the next "/" or ":"; any other scheme has an empty host unless
\* "//" follows the colon.
UrlParts(s) ==
    LET t == Trim(s)
        k == IndexOf(t, ":")
        scheme == SubSeq(t, 1, k - 1)
        rest == SubSeq(t, k + 1, Len(t))
        special == scheme = <<"h", "t", "t", "p">> \/ scheme = <<"h", "t", "t", "p", "s">>
        auth == IF special THEN SkipSlashes(rest)
                ELSE IF StartsWith(rest, <<"/", "/">>) THEN SubSeq(rest, 3, Len(rest))
                ELSE <<>>
        slash == IndexOf(auth, "/")
        hostport == IF slash = 0 THEN auth ELSE SubSeq(auth, 1, slash - 1)
        colon == IndexOf(hostport, ":")
    IN  [scheme |-> scheme, special |-> special,
         host |-> IF colon = 0 THEN hostport ELSE SubSeq(hostport, 1, colon - 1)]

\* Whether new URL(s) returns (TRUE) or throws a TypeError (FALSE): a string
\* without a scheme has no base to resolve against; a scheme starts with a
\* letter; an http(s) URL needs a host; a host holds no space.
UrlParses(s) ==
    LET u == UrlParts(s)
    IN  /\ u.scheme # <<>>
        /\ \A i \in 1..Len(u.scheme) : u.scheme[i] \in SchemeChars
        /\ u.scheme[1] # "."
        /\ \A i \in 1..Len(u.host) : ~IsSpace(u.host[i])
        /\ u.special => u.host # <<>>

\* new URL(s).hostname
Hostname(s) == UrlParts(s).host

\* route.ts:127-131
ScrapeUrl(url) ==
    LET trimmed == Trim(url)
        withScheme == IF StartsWith(trimmed, <<"h", "t", "t", "p">>)
                      THEN trimmed
                      ELSE <<"h", "t", "t", "p", "s", ":", "/", "/">> \o trimmed
    IN  StripTrailingSlashes(withScheme)

\* route.ts:134-135
CleanDomain(scrapeUrl) ==
    IF UrlParses(scrapeUrl) THEN StripWww(Hostname(scrapeUrl)) ELSE scrapeUrl


\* ------------------------------------------------------------ JSON objects

\* An absent local value, an SQL NULL, an object without keys.
None == <<>>

\* obj.key of a parsed object: the value, or undefined when the key is absent.
Get(obj, key) == IF key \in DOMAIN obj THEN obj[key] ELSE Undefined

\* The key/value pair a JSON body carries for obj[key]: JSON.stringify
\* drops the keys whose value is undefined.
Field(obj, key, col) == IF key \in DOMAIN obj THEN (col :> obj[key]) ELSE None

\* ------------------------------------------------------------------- store

\* The rows the seed step created (src/scripts/seed.js), by id.
CompanyIds == {"c1"}

\* initial_schema.sql:14-23: the nullable enrichment columns.
EnrichmentColumns ==
    {"enrichment_summary", "what_they_do", "keywords", "signals", "sources",
     "thesis_score", "thesis_explanation", "embedding", "last_enriched_at"}

\* A row as the seed leaves it: every enrichment column NULL.
ShellRow == [col \in EnrichmentColumns |-> None]

\* CheckThesisScore without the lower bound.
CheckThesisScoreUpperOnly(payload) ==
    "thesis_score" \in DOMAIN payload =>
        payload["thesis_score"] <= 100

\* initial_schema.sql:20: check (thesis_score >= 0 and thesis_score <= 100);
\* a NULL passes a check constraint, a column the update does not name is
\* not checked.
CheckThesisScore(payload) ==
    "thesis_score" \in DOMAIN payload =>
        payload["thesis_score"] \in 0..100

\* ApplyUpdate that fills only the columns still NULL (first writer wins).
ApplyUpdateKeepFirst(table, id, payload) ==
    [c \in DOMAIN table |->
        IF c = id
        THEN [col \in DOMAIN table[c] |->
                 IF col \in DOMAIN payload /\ table[c][col] = None
                 THEN <<payload[col]>>
                 ELSE table[c][col]]
        ELSE table[c]]

\* ApplyUpdate that appends the new sources to the stored ones.
ApplyUpdateAppendSources(table, id, payload) ==
    [c \in DOMAIN table |->
        IF c = id
        THEN [col \in DOMAIN table[c] |->
                 IF col \notin DOMAIN payload THEN table[c][col]
                 ELSE IF col = "sources" /\ table[c][col] # None
                 THEN <<table[c][col][1] \o payload[col]>>
                 ELSE <<payload[col]>>]
        ELSE table[c]]

\* ApplyUpdate that creates the row of an unknown id.
ApplyUpdateInsertsMissing(table, id, payload) ==
    LET old == IF id \in DOMAIN table THEN table[id] ELSE ShellRow
        row == [col \in DOMAIN old |->
                   IF col \in DOMAIN payload THEN <<payload[col]>> ELSE old[col]]
    IN  (id :> row) @@ table

\* update(payload).eq("id", id): the named columns of the matching row are
\* set, the others keep their value; no row matches an unknown id.
ApplyUpdate(table, id, payload) ==
    [c \in DOMAIN table |->
        IF c = id
        THEN [col \in DOMAIN table[c] |->
                 IF col \in DOMAIN payload THEN <<payload[col]>> ELSE table[c][col]]
        ELSE table[c]]

\* ------------------------------------------------------------------ inputs

Str_a_co == <<"a", ".", "c", "o">>

\* The request bodies a client sends: an object with the keys it carries.
UrlA == <<"w", "w", "w", ".">> \o Str_a_co \o <<"/">>

UrlB == <<"h", "t", "t", "p", ":", "/", "/">> \o Str_a_co

Bodies ==
    { [url |-> UrlA, companyId |-> "c1"],
      [url |-> UrlB, companyId |-> "c1"],
      [url |-> UrlA, companyId |-> "c9"],
      [url |-> <<>>, companyId |-> "c1"],
      [url |-> UrlA, companyId |-> ""],
      [url |-> UrlA] }

\* The texts the reader service returns with a 2xx status.
PageLong == Rep("x", MinContentLen)

PagePadded == Rep(" ", 6) \o Rep("x", MinContentLen - 1) \o Rep(" ", 6)

PageEmpty == <<>>

\* What fetch(r.jina.ai/...) yields: it throws (timeout, network error), or
\* resolves with a status and a body text.
JinaOutcomes ==
    { [threw |-> TRUE, ok |-> FALSE, text |-> <<>>],
      [threw |-> FALSE, ok |-> FALSE, text |-> PageLong],
      [threw |-> FALSE, ok |-> TRUE, text |-> PageEmpty],
      [threw |-> FALSE, ok |-> TRUE, text |-> PagePadded],
      [threw |-> FALSE, ok |-> TRUE, text |-> PageLong] }

\* Objects a provider's reply text can parse to.
GoodA ==
    [summary |-> "sA", whatTheyDo |-> <<"w1">>, keywords |-> <<"k1", "k2">>,
     signals |-> <<"g1">>, thesisScore |-> 80, thesisExplanation |-> "eA"]

GoodB ==
    [summary |-> "sB", whatTheyDo |-> <<"w2">>, keywords |-> <<"k3">>,
     signals |-> <<>>, thesisScore |-> 35, thesisExplanation |-> "eB"]

\* A JSON object without the required key summary.
NoSummary ==
    [whatTheyDo |-> <<"w1">>, keywords |-> <<"k1">>,
     signals |-> <<>>, thesisScore |-> 50, thesisExplanation |-> "eC"]

\* route.ts:40: JSON_SCHEMA.required
RequiredKeys ==
    {"summary", "whatTheyDo", "keywords", "signals", "thesisScore", "thesisExplanation"}

\* Whether a parsed reply has the ExtractionResult shape.
MatchesShape(obj) == RequiredKeys \subseteq DOMAIN obj

\* A reply text: JSON text of an object, or text that is no JSON.
JsonText(obj) == [json |-> TRUE, value |-> obj]

NotJson == [json |-> FALSE, value |-> None]

\* JSON.parse(text): the value, or a SyntaxError with its message.
JsonParse(text) ==
    IF text.json
    THEN [ok |-> TRUE, value |-> text.value, msg |-> ""]
    ELSE [ok |-> FALSE, value |-> None, msg |-> "Unexpected token"]

\* What model.generateContent(prompt) yields: it throws, or returns a text.
GeminiOutcomes ==
    { [threw |-> TRUE, msg |-> "gemini unavailable", text |-> NotJson],
      [threw |-> FALSE, msg |-> "", text |-> NotJson],
      [threw |-> FALSE, msg |-> "", text |-> JsonText(GoodA)],
      [threw |-> FALSE, msg |-> "", text |-> JsonText(NoSummary)] }

\* What the fetch of the Groq completion yields: response.ok and the
\* content of the first choice (None: no choice, no content).
GroqOutcomes ==
    { [ok |-> FALSE, content |-> None],
      [ok |-> TRUE, content |-> None],
      [ok |-> TRUE, content |-> <<NotJson>>],
      [ok |-> TRUE, content |-> <<JsonText(GoodB)>>],
      [ok |-> TRUE, content |-> <<JsonText(NoSummary)>>] }

\* --------------------------------------------------------- pure stages

\* Whether sub occurs in s as a contiguous part.
Contains(s, sub) ==
    \E i \in 1..(Len(s) - Len(sub) + 1) : SubSeq(s, i, i + Len(sub) - 1) = sub

\* MissingInput that accepts an empty url or companyId.
MissingInputAbsentOnly(body) ==
    \/ "url" \notin DOMAIN body
    \/ "companyId" \notin DOMAIN body

\* route.ts:101: !url || !companyId
MissingInput(body) ==
    \/ "url" \notin DOMAIN body
    \/ body.url = <<>>
    \/ "companyId" \notin DOMAIN body
    \/ body.companyId = ""

\* route.ts:108-112: select('last_enriched_at').eq('id', id).single():
\* data is null (None) when the read fails or no row has the id, else the
\* object holding the row's column: <<None>> for a null column, <<<<t>>>>
\* for the timestamp t.
ReadLastEnriched(table, id, readOk) ==
    IF readOk /\ id \in DOMAIN table THEN <<table[id]["last_enriched_at"]>> ELSE None

\* GateRejects with the window one tick short.
GateRejectsOffByOne(cData, clock) ==
    /\ cData # None
    /\ cData[1] # None
    /\ clock - cData[1][1] < Hour - 1

\* GateRejects that also rejects when nothing was read (fail-closed).
GateRejectsUnread(cData, clock) ==
    \/ cData = None
    \/ /\ cData[1] # None
       /\ clock - cData[1][1] < Hour

\* route.ts:114-119: cData && cData.last_enriched_at && hours < 1
GateRejects(cData, clock) ==
    /\ cData # None
    /\ cData[1] # None
    /\ clock - cData[1][1] < Hour

\* route.ts:138-156: the text of a 2xx reply, "" in every other case.
AcquiredText(j) == IF ~j.threw /\ j.ok THEN j.text ELSE <<>>

\* route.ts:160-165: the instruction block sent instead of a page.
FallbackBlock(scrapeUrl, cleanDomain) ==
    <<"IMPORTANT: The website at ">> \o scrapeUrl
        \o <<" could not be scraped. ... Company domain: ">> \o cleanDomain
        \o <<" Company URL: ">> \o scrapeUrl
        \o <<" Use everything you know ... Do NOT return empty fields">>

\* ContentFor that measures the text without trimming it.
ContentForUntrimmed(text, scrapeUrl, cleanDomain) ==
    IF text = <<>> \/ Len(text) < MinContentLen
    THEN FallbackBlock(scrapeUrl, cleanDomain)
    ELSE text

\* route.ts:159-166
ContentFor(text, scrapeUrl, cleanDomain) ==
    IF text = <<>> \/ Len(Trim(text)) < MinContentLen
    THEN FallbackBlock(scrapeUrl, cleanDomain)
    ELSE text

\* route.ts:46-91: extractWithGroq, given whether the key is set and what
\* the fetch yields: the parsed object, or the message of the Error thrown.
\* called tells whether the fetch was made.
ExtractWithGroq(keySet, out) ==
    IF ~keySet
    THEN [ok |-> FALSE, called |-> FALSE, value |-> None,
          msg |-> "GROQ_API_KEY not configured for fallback."]
    ELSE IF ~out.ok
    THEN [ok |-> FALSE, called |-> TRUE, value |-> None, msg |-> "Groq API returned 500"]
    ELSE IF out.content = None
    THEN [ok |-> FALSE, called |-> TRUE, value |-> None, msg |-> "Empty response from Groq"]
    ELSE [ok |-> JsonParse(out.content[1]).ok, called |-> TRUE,
          value |-> JsonParse(out.content[1]).value,
          msg |-> JsonParse(out.content[1]).msg]

\* route.ts:187-189: the Gemini leg: generateContent, then JSON.parse.
ExtractWithGemini(out) ==
    IF out.threw
    THEN [ok |-> FALSE, value |-> None, msg |-> out.msg]
    ELSE [ok |-> JsonParse(out.text).ok, value |-> JsonParse(out.text).value,
          msg |-> JsonParse(out.text).msg]

\* BothFailedMessage that drops the primary's message.
BothFailedMessageGroqOnly(geminiMsg, groqMsg) ==
    <<"Both Gemini and Groq failed. Groq: ", groqMsg>>

\* route.ts:197
BothFailedMessage(geminiMsg, groqMsg) ==
    <<"Both Gemini and Groq failed. Gemini: ", geminiMsg, ". Groq: ", groqMsg>>

\* route.ts:206
NoKeyMessage(groqMsg) ==
    <<"No GEMINI_API_KEY set, and Groq fallback failed: ", groqMsg>>

\* route.ts:212: the one Source of a run.
SourcesOf(url, clock, provider) ==
    << [url |-> url, fetchedAt |-> clock, provider |-> provider] >>

\* EnrichedData that loses the summary of the reply.
EnrichedDataDropSummary(parsedData, sources) ==
    ("sources" :> sources)
        @@ [k \in DOMAIN parsedData \ {"summary"} |-> parsedData[k]]

\* route.ts:210-213: { ...parsedData, sources: [...] }
EnrichedData(parsedData, sources) == ("sources" :> sources) @@ parsedData

\* EmbeddingText without the keywords.
EmbeddingTextSummaryOnly(parsedData) == <<Get(parsedData, "summary"), <<>> >>

\* route.ts:222: `${summary} ${keywords?.join(", ") || ""}`
EmbeddingText(parsedData) ==
    <<Get(parsedData, "summary"),
      IF "keywords" \in DOMAIN parsedData THEN parsedData["keywords"] ELSE <<>> >>

\* route.ts:223-224: the vector the embedding model returns for a text.
EmbeddingOf(text) == [vectorOf |-> text]

\* UpdatePayload that always names the embedding column.
UpdatePayloadAlwaysEmbedding(enriched, embedding, clock) ==
    Field(enriched, "summary", "enrichment_summary")
        @@ Field(enriched, "whatTheyDo", "what_they_do")
        @@ Field(enriched, "keywords", "keywords")
        @@ Field(enriched, "signals", "signals")
        @@ Field(enriched, "sources", "sources")
        @@ Field(enriched, "thesisScore", "thesis_score")
        @@ Field(enriched, "thesisExplanation", "thesis_explanation")
        @@ ("last_enriched_at" :> clock)
        @@ ("embedding" :> embedding)

\* route.ts:232-245: the columns the update names; a key whose value is
\* undefined is not sent, and embedding is added only when there is one.
UpdatePayload(enriched, embedding, clock) ==
    Field(enriched, "summary", "enrichment_summary")
        @@ Field(enriched, "whatTheyDo", "what_they_do")
        @@ Field(enriched, "keywords", "keywords")
        @@ Field(enriched, "signals", "signals")
        @@ Field(enriched, "sources", "sources")
        @@ Field(enriched, "thesisScore", "thesis_score")
        @@ Field(enriched, "thesisExplanation", "thesis_explanation")
        @@ ("last_enriched_at" :> clock)
        @@ (IF embedding # None THEN ("embedding" :> embedding[1]) ELSE None)

\* NextResponse.json(body, { status })
Response(status, body) == [status |-> status, body |-> body]

ErrorBody(msg) == [error |-> msg]

\* ------------------------------------------------------------------- state

VARIABLES
    now,        \* the server clock, in ticks
    companies,  \* the companies table: id -> row
    geminiKey,  \* process.env.GEMINI_API_KEY is set
    groqKey,    \* process.env.GROQ_API_KEY is set
    req,        \* the invocations of POST: slot -> locals of the handler
    started,    \* invocations started so far
    trk,        \* the invocations of POST /api/companies: slot -> locals
    match,      \* the last call of match_companies and its rows
    norm,       \* a URL and the canonical domains the two routes derive
    page        \* the state of one open profile page

vars == <<now, companies, geminiKey, groqKey, req, started, trk, match, norm, page>>

\* What the enrichment route never touches.
outside == <<trk, match, norm, page>>

\* The handlers that can run at the same time.
Reqs == {1, 2}

\* The handlers Spec uses: one invocation at a time.
Serial == {1}

\* The locals of a handler before its request arrives; aborted is the
\* state of req.signal, which the handler never reads.
IdleReq ==
    [pc |-> "idle", body |-> None, cData |-> None, acquired |-> None,
     markdownContent |-> <<>>,
     geminiError |-> "", groqError |-> "", parsedData |-> None,
     enrichedData |-> None, usedProvider |-> "gemini", embedding |-> None,
     dbError |-> None, calls |-> <<>>, response |-> None,
     aborted |-> FALSE]

\* The track handlers that can run at the same time.
Trackers == {1, 2}

\* The locals of POST /api/companies before its request arrives.
IdleTrack == [pc |-> "idle", body |-> None, domain |-> <<>>, response |-> None]

\* match_companies has not been called.
NoMatch == [query |-> None, rows |-> <<>>]

\* No URL has been normalised.
NoNorm == [url |-> None, enrich |-> None, track |-> None]

\* No profile page is open.
ClosedPage == [open |-> FALSE]

Init ==
    /\ now = 0
    /\ companies = [c \in CompanyIds |-> ShellRow]
    /\ geminiKey \in BOOLEAN
    /\ groqKey \in BOOLEAN
    /\ req = [r \in Reqs |-> IdleReq]
    /\ started = 0
    /\ trk = [t \in Trackers |-> IdleTrack]
    /\ match = NoMatch
    /\ norm = NoNorm
    /\ page = ClosedPage

\* The handler returns: its response is final.
Finish(rq, status, body) ==
    [rq EXCEPT !.pc = "done", !.response = Response(status, body)]

\* A call to an external service is logged in the order made.
Called(rq, service) == [rq EXCEPT !.calls = Append(@, service)]

\* ----------------------------------------------------------------- actions

\* route.ts:98-103: the body is read and validated.
Start(r, bodies, maxRuns) ==
    /\ req[r].pc = "idle"
    /\ \A q \in Reqs : q < r => req[q].pc # "idle"
    /\ started < maxRuns
    /\ \E body \in bodies :
        req' = [req EXCEPT ![r] =
            IF MissingInput(body)
            THEN Finish([@ EXCEPT !.body = body], 400,
                        ErrorBody(<<"Missing 'url' or 'companyId' parameter">>))
            ELSE [@ EXCEPT !.body = body, !.pc = "gate"]]
    /\ started' = started + 1
    /\ UNCHANGED <<now, companies, geminiKey, groqKey>>
    /\ UNCHANGED outside

\* route.ts:107-124: the rate-limiting check.
Gate(r, reads) ==
    /\ req[r].pc = "gate"
    /\ \E readOk \in reads :
        LET cData == ReadLastEnriched(companies, req[r].body.companyId, readOk)
            rq == [Called(req[r], "select") EXCEPT !.cData = cData]
        IN  req' = [req EXCEPT ![r] =
                IF GateRejects(cData, now)
                THEN Finish(rq, 429,
                        ErrorBody(<<"Rate Limit Exceeded: This company was recently enriched. Please wait an hour.">>))
                ELSE [rq EXCEPT !.pc = "scrape"]]
    /\ UNCHANGED <<now, companies, geminiKey, groqKey, started>>
    /\ UNCHANGED outside

\* route.ts:126-166: the URL is normalised, the reader is called and the
\* content for the extractor is chosen.
Scrape(r, outcomes) ==
    /\ req[r].pc = "scrape"
    /\ \E j \in outcomes :
        LET scrapeUrl == ScrapeUrl(req[r].body.url)
            rq == Called(req[r], "jina")
        IN  req' = [req EXCEPT ![r] =
                [rq EXCEPT !.pc = "extract",
                           !.acquired = <<j>>,
                           !.markdownContent =
                               ContentFor(AcquiredText(j), scrapeUrl, CleanDomain(scrapeUrl))]]
    /\ UNCHANGED <<now, companies, geminiKey, groqKey, started>>
    /\ UNCHANGED outside

\* Extracted that never sets usedProvider.
ExtractedAsGemini(rq, value, provider) ==
    [rq EXCEPT !.acquired = None,
               !.parsedData = value,
               !.enrichedData =
                   EnrichedData(value, SourcesOf(rq.body.url, now, rq.usedProvider)),
               !.pc = IF geminiKey THEN "embed" ELSE "persist"]

\* Extracted that goes to the update without the embedding.
ExtractedSkipsEmbedding(rq, value, provider) ==
    [rq EXCEPT !.acquired = None,
               !.parsedData = value,
               !.usedProvider = provider,
               !.enrichedData =
                   EnrichedData(value, SourcesOf(rq.body.url, now, provider)),
               !.pc = "persist"]

\* route.ts:210-218: an extraction succeeded: the result and its Source
\* are kept, and the embedding is requested when the Gemini key is set.
Extracted(rq, value, provider) ==
    [rq EXCEPT !.acquired = None,
               !.parsedData = value,
               !.usedProvider = provider,
               !.enrichedData =
                   EnrichedData(value, SourcesOf(rq.body.url, now, provider)),
               !.pc = IF geminiKey THEN "embed" ELSE "persist"]

\* ExtractGemini that does not test the key.
ExtractGeminiAnyKey(r, outcomes) ==
    /\ req[r].pc = "extract"
    /\ \E out \in outcomes :
        LET res == ExtractWithGemini(out)
            rq == Called(req[r], "gemini")
        IN  req' = [req EXCEPT ![r] =
                IF res.ok
                THEN [rq EXCEPT !.acquired = None,
                                !.parsedData = res.value,
                                !.enrichedData =
                                    EnrichedData(res.value,
                                        SourcesOf(rq.body.url, now, "gemini")),
                                !.pc = "embed"]
                ELSE [rq EXCEPT !.acquired = None, !.geminiError = res.msg, !.pc = "groq"]]
    /\ UNCHANGED <<now, companies, geminiKey, groqKey, started>>
    /\ UNCHANGED outside

\* route.ts:174-191: the Gemini leg; on any failure the handler goes on to
\* extractWithGroq.
ExtractGemini(r, outcomes) ==
    /\ req[r].pc = "extract"
    /\ geminiKey
    /\ \E out \in outcomes :
        LET res == ExtractWithGemini(out)
            rq == Called(req[r], "gemini")
        IN  req' = [req EXCEPT ![r] =
                IF res.ok
                THEN Extracted(rq, res.value, "gemini")
                ELSE [rq EXCEPT !.acquired = None, !.geminiError = res.msg, !.pc = "groq"]]
    /\ UNCHANGED <<now, companies, geminiKey, groqKey, started>>
    /\ UNCHANGED outside

\* route.ts:192-198: the fallback to Groq after Gemini failed.
GroqFallback(r, outcomes) ==
    /\ req[r].pc = "groq"
    /\ \E out \in outcomes :
        LET res == ExtractWithGroq(groqKey, out)
            rq == IF res.called THEN Called(req[r], "groq") ELSE req[r]
        IN  req' = [req EXCEPT ![r] =
                IF res.ok
                THEN Extracted(rq, res.value, "groq")
                ELSE Finish([rq EXCEPT !.groqError = res.msg], 500,
                        ErrorBody(BothFailedMessage(req[r].geminiError, res.msg)))]
    /\ UNCHANGED <<now, companies, geminiKey, groqKey, started>>
    /\ UNCHANGED outside

\* route.ts:200-208: no Gemini key: straight to Groq.
GroqDirect(r, outcomes) ==
    /\ req[r].pc = "extract"
    /\ ~geminiKey
    /\ \E out \in outcomes :
        LET res == ExtractWithGroq(groqKey, out)
            rq == IF res.called THEN Called(req[r], "groq") ELSE req[r]
        IN  req' = [req EXCEPT ![r] =
                IF res.ok
                THEN Extracted(rq, res.value, "groq")
                ELSE Finish([rq EXCEPT !.groqError = res.msg], 500,
                        ErrorBody(NoKeyMessage(res.msg)))]
    /\ UNCHANGED <<now, companies, geminiKey, groqKey, started>>
    /\ UNCHANGED outside

\* Embed whose failure ends the invocation.
EmbedFatal(r) ==
    /\ req[r].pc = "embed"
    /\ \E ok \in BOOLEAN :
        req' = [req EXCEPT ![r] =
            IF ok
            THEN [Called(@, "embed") EXCEPT
                    !.pc = "persist",
                    !.embedding = <<EmbeddingOf(EmbeddingText(req[r].parsedData))>>]
            ELSE Finish(Called(@, "embed"), 500, ErrorBody(<<"embedding failed">>))]
    /\ UNCHANGED <<now, companies, geminiKey, groqKey, started>>
    /\ UNCHANGED outside

\* route.ts:218-229: the embedding is requested; a failure is swallowed.
Embed(r) ==
    /\ req[r].pc = "embed"
    /\ \E ok \in BOOLEAN :
        req' = [req EXCEPT ![r] =
            [Called(@, "embed") EXCEPT
                !.pc = "persist",
                !.embedding =
                    IF ok THEN <<EmbeddingOf(EmbeddingText(req[r].parsedData))>> ELSE None]]
    /\ UNCHANGED <<now, companies, geminiKey, groqKey, started>>
    /\ UNCHANGED outside

\* Persist that reports success when the update failed.
PersistReportsSuccess(r) ==
    /\ req[r].pc = "persist"
    /\ \E storeOk \in BOOLEAN :
        LET payload == UpdatePayload(req[r].enrichedData, req[r].embedding, now)
            rq == Called(req[r], "update")
        IN  IF storeOk /\ CheckThesisScore(payload)
            THEN /\ companies' = ApplyUpdate(companies, req[r].body.companyId, payload)
                 /\ req' = [req EXCEPT ![r] = Finish(rq, 200, req[r].enrichedData)]
            ELSE /\ companies' = companies
                 /\ req' = [req EXCEPT ![r] =
                        Finish([rq EXCEPT !.dbError = <<"store error">>], 200,
                            req[r].enrichedData)]
    /\ UNCHANGED <<now, geminiKey, groqKey, started>>
    /\ UNCHANGED outside

\* Persist that skips the update of an aborted request.
PersistUnlessAborted(r) ==
    /\ req[r].pc = "persist"
    /\ \E storeOk \in BOOLEAN :
        LET payload == UpdatePayload(req[r].enrichedData, req[r].embedding, now)
            rq == Called(req[r], "update")
        IN  IF req[r].aborted
            THEN /\ companies' = companies
                 /\ req' = [req EXCEPT ![r] = Finish(req[r], 500, ErrorBody(<<"aborted">>))]
            ELSE IF storeOk /\ CheckThesisScore(payload)
            THEN /\ companies' = ApplyUpdate(companies, req[r].body.companyId, payload)
                 /\ req' = [req EXCEPT ![r] = Finish(rq, 200, req[r].enrichedData)]
            ELSE /\ companies' = companies
                 /\ req' = [req EXCEPT ![r] =
                        Finish([rq EXCEPT !.dbError = <<"store error">>], 500,
                            ErrorBody(<<"Failed to save enrichment to database: ", "store error">>))]
    /\ UNCHANGED <<now, geminiKey, groqKey, started>>
    /\ UNCHANGED outside

\* Persist that records the time of a failed attempt.
PersistStampsAttempt(r) ==
    /\ req[r].pc = "persist"
    /\ \E storeOk \in BOOLEAN :
        LET payload == UpdatePayload(req[r].enrichedData, req[r].embedding, now)
            rq == Called(req[r], "update")
        IN  IF storeOk /\ CheckThesisScore(payload)
            THEN /\ companies' = ApplyUpdate(companies, req[r].body.companyId, payload)
                 /\ req' = [req EXCEPT ![r] = Finish(rq, 200, req[r].enrichedData)]
            ELSE /\ companies' = ApplyUpdate(companies, req[r].body.companyId,
                                    "last_enriched_at" :> now)
                 /\ req' = [req EXCEPT ![r] =
                        Finish([rq EXCEPT !.dbError = <<"store error">>], 500,
                            ErrorBody(<<"Failed to save enrichment to database: ", "store error">>))]
    /\ UNCHANGED <<now, geminiKey, groqKey, started>>
    /\ UNCHANGED outside

\* route.ts:231-257: the update of the row, and the response.  The update
\* fails when the store is unreachable or a constraint rejects the payload.
Persist(r) ==
    /\ req[r].pc = "persist"
    /\ \E storeOk \in BOOLEAN :
        LET payload == UpdatePayload(req[r].enrichedData, req[r].embedding, now)
            rq == Called(req[r], "update")
        IN  IF storeOk /\ CheckThesisScore(payload)
            THEN /\ companies' = ApplyUpdate(companies, req[r].body.companyId, payload)
                 /\ req' = [req EXCEPT ![r] = Finish(rq, 200, req[r].enrichedData)]
            ELSE /\ companies' = companies
                 /\ req' = [req EXCEPT ![r] =
                        Finish([rq EXCEPT !.dbError = <<"store error">>], 500,
                            ErrorBody(<<"Failed to save enrichment to database: ", "store error">>))]
    /\ UNCHANGED <<now, geminiKey, groqKey, started>>
    /\ UNCHANGED outside

\* The response is delivered; the handler is free for the next request.
Respond(r) ==
    /\ req[r].pc = "done"
    /\ req' = [req EXCEPT ![r] = IdleReq]
    /\ UNCHANGED <<now, companies, geminiKey, groqKey, started>>
    /\ UNCHANGED outside

\* Time passes.
Tick(maxTime) ==
    /\ now < maxTime
    /\ now' = now + 1
    /\ UNCHANGED <<companies, geminiKey, groqKey, req, started>>
    /\ UNCHANGED outside

Next ==
    \/ \E r \in Serial : Start(r, Bodies, MaxRuns)
    \/ \E r \in Serial : Gate(r, BOOLEAN)
    \/ \E r \in Serial : Scrape(r, JinaOutcomes)
    \/ \E r \in Serial : ExtractGemini(r, GeminiOutcomes)
    \/ \E r \in Serial : GroqFallback(r, GroqOutcomes)
    \/ \E r \in Serial : GroqDirect(r, GroqOutcomes)
    \/ \E r \in Serial : Embed(r)
    \/ \E r \in Serial : Persist(r)
    \/ \E r \in Serial : Respond(r)
    \/ Tick(MaxTime)

Spec == Init /\ [][Next]_vars

\* ---------------------------------------------------- overlapping requests

\* SpecRace runs two handlers at once on well-formed requests for the one
\* company, with one failing and one succeeding outcome of each service and
\* a store whose reads succeed.
RaceBodies == {b \in Bodies : ~MissingInput(b) /\ b.companyId \in CompanyIds}

RaceJinaOutcomes == {j \in JinaOutcomes : j.threw \/ (j.ok /\ j.text = PageLong)}

RaceGeminiOutcomes == {o \in GeminiOutcomes : o.threw \/ o.text = JsonText(GoodA)}

RaceGroqOutcomes == {o \in GroqOutcomes : ~o.ok \/ o.content = <<JsonText(GoodB)>>}

NextRace ==
    \/ \E r \in Reqs : Start(r, RaceBodies, MaxRaceRuns)
    \/ \E r \in Reqs : Gate(r, {TRUE})
    \/ \E r \in Reqs : Scrape(r, RaceJinaOutcomes)
    \/ \E r \in Reqs : ExtractGemini(r, RaceGeminiOutcomes)
    \/ \E r \in Reqs : GroqFallback(r, RaceGroqOutcomes)
    \/ \E r \in Reqs : GroqDirect(r, RaceGroqOutcomes)
    \/ \E r \in Reqs : Embed(r)
    \/ \E r \in Reqs : Persist(r)
    \/ \E r \in Reqs : Respond(r)
    \/ Tick(MaxRaceTime)

SpecRace == Init /\ [][NextRace]_vars

\* ------------------------------------------------------------- properties

Done(r) == req[r].pc = "done"

Status(r) == req[r].response.status

\* The invocation r is for a company the table holds.
ForEntity(r) ==
    /\ "companyId" \in DOMAIN req[r].body
    /\ req[r].body.companyId \in DOMAIN companies

RowOf(r) == companies[req[r].body.companyId]

\* The gate of r has read a timestamp less than one hour old.
ReadFresh(rq, clock) ==
    rq.cData # None /\ rq.cData[1] # None /\ clock - rq.cData[1][1] < Hour

\* The row of company c holds a timestamp less than one hour old.
StoredFresh(c) ==
    /\ c \in DOMAIN companies
    /\ companies[c]["last_enriched_at"] # None
    /\ now - companies[c]["last_enriched_at"][1] < Hour

\* initial_schema.sql:15-21: the column that stores each key of an
\* ExtractionResult.
ColumnOf(k) ==
    CASE k = "summary" -> "enrichment_summary"
      [] k = "whatTheyDo" -> "what_they_do"
      [] k = "keywords" -> "keywords"
      [] k = "signals" -> "signals"
      [] k = "thesisScore" -> "thesis_score"
      [] k = "thesisExplanation" -> "thesis_explanation"

\* r leaves the stage named pc in this step.
Leaves(r, pc) == req[r].pc = pc /\ req'[r].pc # pc

\* r's update is accepted in this step.
Writes(r) ==
    /\ req[r].pc = "persist"
    /\ req'[r].pc = "done"
    /\ req'[r].response.status = 200

C1_RejectedCallsNothing ==
    \A r \in Reqs :
        (Done(r) /\ Status(r) = 429) => req[r].calls = <<"select">>

C1_ReadFreshStep ==
    \A r \in Reqs :
        (Leaves(r, "gate") /\ ReadFresh(req'[r], now))
            => /\ req'[r].pc = "done"
               /\ req'[r].response.status = 429
               /\ req'[r].calls = <<"select">>
               /\ companies' = companies

C2_OneRunPerHour ==
    [][\A r \in Reqs :
        (Writes(r) /\ ForEntity(r) /\ RowOf(r)["last_enriched_at"] # None)
            => now - RowOf(r)["last_enriched_at"][1] >= Hour]_vars

\* C3: an accepted update of a request that passed the gate replaces the
\* row's values by its own, whatever another request wrote since the gate
\* read (last writer wins); the update is not refused or merged because the
\* row changed.
C3_LastWriterWins ==
    [][\A r \in Reqs :
        (Writes(r) /\ ForEntity(r))
            => /\ companies'[req[r].body.companyId]["sources"]
                    = <<req[r].enrichedData["sources"]>>
               /\ companies'[req[r].body.companyId]["last_enriched_at"] = <<now>>
               /\ \A k \in DOMAIN req[r].parsedData :
                    companies'[req[r].body.companyId][ColumnOf(k)]
                        = <<req[r].parsedData[k]>>]_vars

\* Two requests for one company both read a null timestamp, both ran to the
\* end and both wrote; the row holds the values of one of them, which
\* differ from the other's.
C3_Witness ==
    \E r, q \in Reqs :
        /\ r # q
        /\ Done(r) /\ Done(q)
        /\ Status(r) = 200 /\ Status(q) = 200
        /\ req[r].body.companyId = req[q].body.companyId
        /\ req[r].cData = <<None>> /\ req[q].cData = <<None>>
        /\ req[r].enrichedData # req[q].enrichedData
        /\ RowOf(r)["sources"] = <<req[r].enrichedData["sources"]>>
        /\ RowOf(r)["enrichment_summary"] = <<req[r].parsedData["summary"]>>
        /\ RowOf(r)["sources"] # <<req[q].enrichedData["sources"]>>

\* Service x is among the calls.
Has(calls, x) == \E i \in 1..Len(calls) : calls[i] = x

\* The acquisition outcome j is one the pipeline treats as a failure.
AcquisitionFailed(j) ==
    j.threw \/ ~j.ok \/ Len(Trim(j.text)) < MinContentLen

C4_ScrapeStep ==
    \A r \in Reqs :
        Leaves(r, "scrape") =>
            LET j == req'[r].acquired[1]
                content == req'[r].markdownContent
                scrapeUrl == ScrapeUrl(req[r].body.url)
            IN  /\ req'[r].pc = "extract"
                /\ req'[r].response = None
                /\ IF AcquisitionFailed(j)
                   THEN /\ content # j.text
                        /\ Contains(content, CleanDomain(scrapeUrl))
                        /\ Contains(content, scrapeUrl)
                   ELSE content = j.text

C4_ExtractStep ==
    \A r \in Reqs :
        Leaves(r, "extract") =>
            \/ req'[r].calls = Append(req[r].calls, "gemini")
            \/ req'[r].calls = Append(req[r].calls, "groq")
            \/ ~geminiKey /\ ~groqKey /\ req'[r].pc = "done"

\* C4: an acquisition that throws, answers non-2xx or returns text of
\* trimmed length under 50 never ends the invocation: the handler goes on
\* to the extractor, whose content is then the instruction block holding
\* the canonical domain and the scrape URL; text of 50 characters or more
\* reaches the extractor unchanged.
C4_DegradeNotFail == [][C4_ScrapeStep /\ C4_ExtractStep]_vars

\* After a failed acquisition the primary provider was called with the
\* instruction block, which names a.co and the scrape URL.
C4_Witness ==
    \E r \in Reqs :
        /\ req[r].pc = "groq"
        /\ req[r].calls = <<"select", "jina", "gemini">>
        /\ req[r].markdownContent[1] = "IMPORTANT: The website at "
        /\ Contains(req[r].markdownContent, Str_a_co)
        /\ Contains(req[r].markdownContent, ScrapeUrl(req[r].body.url))

\* The one Source of r's result names provider p, in the response and in
\* the stored row.
C5_SourceNames(r, p) ==
    /\ Len(req[r].response.body["sources"]) = 1
    /\ req[r].response.body["sources"][1].provider = p
    /\ RowOf(r)["sources"] = <<req[r].response.body["sources"]>>

\* r's extraction succeeded through the secondary after the primary failed.
C5_FellBack(r) ==
    /\ geminiKey
    /\ Has(req[r].calls, "gemini")
    /\ Has(req[r].calls, "groq")
    /\ req[r].enrichedData # None

\* r's extraction succeeded at the primary.
C5_PrimaryOk(r) ==
    /\ Has(req[r].calls, "gemini")
    /\ req[r].geminiError = ""
    /\ req[r].pc \in {"embed", "persist", "done"}

\* C5 as stated: a run whose primary call failed and whose secondary call
\* succeeded returns success with the record persisted and the Source
\* naming the secondary.
C5_FallbackAlwaysSucceeds ==
    \A r \in Reqs :
        (Done(r) /\ ForEntity(r) /\ C5_FellBack(r))
            => (Status(r) = 200 /\ C5_SourceNames(r, "groq"))

\* C5, amended: a run for an entity whose primary call failed and whose
\* secondary call succeeded ends in success unless the store rejects the
\* update (then status 500); on success the single Source of the response
\* and of the stored record names the secondary.  A run whose primary call
\* succeeded never calls the secondary, and on success its Source names the
\* primary.
C5_ProviderRecorded ==
    \A r \in Reqs :
        /\ (Done(r) /\ ForEntity(r) /\ C5_FellBack(r))
            => /\ Status(r) \in {200, 500}
               /\ Status(r) = 200 => C5_SourceNames(r, "groq")
               /\ Status(r) = 500 => Has(req[r].calls, "update")
        /\ C5_PrimaryOk(r)
            => /\ ~Has(req[r].calls, "groq")
               /\ (Done(r) /\ ForEntity(r) /\ Status(r) = 200)
                    => C5_SourceNames(r, "gemini")

\* A run fell back to the secondary and its stored Source names it.
C5_Witness ==
    \E r \in Reqs :
        /\ Done(r) /\ ForEntity(r) /\ C5_FellBack(r)
        /\ Status(r) = 200
        /\ RowOf(r)["sources"][1][1].provider = "groq"

\* C6 as stated: no reply that lacks a required key of the
\* ExtractionResult is returned as success.
C6_MalformedNeverAccepted ==
    \A r \in Reqs :
        (Done(r) /\ Status(r) = 200) => MatchesShape(req[r].parsedData)

\* C7: when the primary fails and the secondary is not configured or
\* fails too, the invocation ends with status 500, the error message holds
\* both providers' messages, and neither the embedding service nor the
\* store's update is called.
C7_BothMessagesSurfaced ==
    \A r \in Reqs :
        (Done(r) /\ req[r].geminiError # "" /\ req[r].groqError # "")
            => /\ Status(r) = 500
               /\ Contains(req[r].response.body.error, <<req[r].geminiError>>)
               /\ Contains(req[r].response.body.error, <<req[r].groqError>>)
               /\ ~Has(req[r].calls, "embed")
               /\ ~Has(req[r].calls, "update")
               /\ req[r].enrichedData = None

\* Both providers were called and both failed.
C7_Witness ==
    \E r \in Reqs :
        /\ Done(r)
        /\ req[r].calls = <<"select", "jina", "gemini", "groq">>
        /\ req[r].geminiError = "Unexpected token"
        /\ req[r].groqError = "Groq API returned 500"
        /\ Status(r) = 500

\* C8: without a Gemini key no invocation calls the primary provider: the
\* first call after the reader is the secondary, and a result it yields is
\* recorded under the secondary's name.
C8_NoKeyNoPrimary ==
    ~geminiKey =>
        \A r \in Reqs :
            /\ ~Has(req[r].calls, "gemini")
            /\ Len(req[r].calls) >= 3 => req[r].calls[3] = "groq"
            /\ req[r].enrichedData # None
                => /\ req[r].usedProvider = "groq"
                   /\ req[r].enrichedData["sources"][1].provider = "groq"

\* Without a Gemini key a run succeeded through the secondary.
C8_Witness ==
    \E r \in Reqs :
        /\ ~geminiKey
        /\ Done(r) /\ Status(r) = 200
        /\ req[r].calls = <<"select", "jina", "groq", "update">>
        /\ req[r].response.body["sources"][1].provider = "groq"

\* The embedding call of r failed after its extraction succeeded.
C9_EmbeddingFailed(rq) == Has(rq.calls, "embed") /\ rq.embedding = None

\* C9 as stated: a run whose embedding call fails returns success.
C9_EmbeddingFailureAlwaysSucceeds ==
    \A r \in Reqs :
        (Done(r) /\ C9_EmbeddingFailed(req[r])) => Status(r) = 200

\* C9, amended: a run whose embedding call fails still sends the update
\* with its extraction result; unless the store rejects the update (status
\* 500, row unchanged) it returns success with the result stored, and in
\* either case the update leaves the stored embedding as it was.
C9_EmbeddingKept ==
    [][\A r \in Reqs :
        (Leaves(r, "persist") /\ C9_EmbeddingFailed(req[r]))
            => /\ req'[r].pc = "done"
               /\ req'[r].calls = Append(req[r].calls, "update")
               /\ req'[r].response.status \in {200, 500}
               /\ req'[r].response.status = 500 => companies' = companies
               /\ req'[r].response.status = 200
                    => req'[r].response.body = req[r].enrichedData
               /\ ForEntity(r)
                    => /\ companies'[req[r].body.companyId]["embedding"]
                            = RowOf(r)["embedding"]
                       /\ req'[r].response.status = 200
                            => /\ companies'[req[r].body.companyId]["sources"]
                                    = <<req[r].enrichedData["sources"]>>
                               /\ \A k \in DOMAIN req[r].parsedData :
                                    companies'[req[r].body.companyId][ColumnOf(k)]
                                        = <<req[r].parsedData[k]>>]_vars

\* A run whose embedding call failed succeeded, and the row still holds the
\* embedding an earlier run stored.
C9_Witness ==
    \E r \in Reqs :
        /\ Done(r) /\ ForEntity(r) /\ Status(r) = 200
        /\ C9_EmbeddingFailed(req[r])
        /\ RowOf(r)["sources"] = <<req[r].enrichedData["sources"]>>
        /\ RowOf(r)["embedding"] # None

C10_SingleSource ==
    \A c \in DOMAIN companies :
        companies[c]["sources"] # None
            => /\ Len(companies[c]["sources"][1]) = 1
               /\ companies[c]["last_enriched_at"] # None
               /\ companies[c]["sources"][1][1].fetchedAt
                    <= companies[c]["last_enriched_at"][1]

C10_ReplaceStep ==
    \A r \in Reqs :
        (Writes(r) /\ ForEntity(r))
            => /\ companies'[req[r].body.companyId]["sources"]
                    = << << [url |-> req[r].body.url,
                             fetchedAt |-> req[r].enrichedData["sources"][1].fetchedAt,
                             provider |-> req[r].usedProvider] >> >>
               /\ companies'[req[r].body.companyId]["last_enriched_at"] = <<now>>

\* C10: the stored sources list always has exactly one element; every
\* accepted update replaces it by the Source of that run (its URL, fetch
\* time and provider) and sets the last-enriched timestamp to the time of
\* the same update.
C10_SourcesReplaced == []C10_SingleSource /\ [][C10_ReplaceStep]_vars

\* A second run, which read the timestamp of an earlier one, replaced the
\* stored Source by its own.
C10_Witness ==
    \E r \in Reqs :
        /\ Done(r) /\ ForEntity(r) /\ Status(r) = 200
        /\ req[r].cData # None /\ req[r].cData[1] # None
        /\ req[r].body.url = UrlB
        /\ Len(RowOf(r)["sources"][1]) = 1
        /\ RowOf(r)["sources"][1][1].url = UrlB
        /\ RowOf(r)["last_enriched_at"][1] > req[r].cData[1][1]

\* C11: an invocation whose update of the row failed ends with status 500
\* and an error body, never with the success payload, also when the reader,
\* the extraction and the embedding all succeeded.
C11_WriteFailureIs500 ==
    \A r \in Reqs :
        req[r].dbError # None
            => /\ Done(r)
               /\ Status(r) = 500
               /\ DOMAIN req[r].response.body = {"error"}
               /\ req[r].response.body # req[r].enrichedData

\* The reader returned a page, Gemini extracted, the embedding was computed,
\* the update failed: the response is 500.
C11_Witness ==
    \E r \in Reqs :
        /\ Done(r)
        /\ req[r].dbError # None
        /\ req[r].calls = <<"select", "jina", "gemini", "embed", "update">>
        /\ req[r].markdownContent = PageLong
        /\ req[r].parsedData = GoodA
        /\ req[r].embedding # None
        /\ Status(r) = 500

\* C12 as stated: the enrichment columns of a row other than the embedding
\* are all NULL or all non-NULL in every reachable state.
C12_AllOrNothing ==
    \A c \in DOMAIN companies :
        \/ \A col \in EnrichmentColumns \ {"embedding"} : companies[c][col] = None
        \/ \A col \in EnrichmentColumns \ {"embedding"} : companies[c][col] # None

\* The body carries no url or no companyId: the key is absent or its value
\* is the empty string.
C13_LacksInput(body) ==
    \/ "url" \notin DOMAIN body
    \/ "companyId" \notin DOMAIN body
    \/ body.url = <<>>
    \/ body.companyId = ""

C14_IsError(r) ==
    /\ Status(r) \in {400, 429, 500}
    /\ DOMAIN req[r].response.body = {"error"}

C20_KnowledgeFallback(rq) ==
    rq.markdownContent
        = FallbackBlock(ScrapeUrl(rq.body.url), CleanDomain(ScrapeUrl(rq.body.url)))

C20_SummaryReturned ==
    \A r \in Reqs :
        (Done(r) /\ Status(r) = 200 /\ C20_KnowledgeFallback(req[r]))
            => /\ Contains(req[r].markdownContent,
                    <<" Use everything you know ... Do NOT return empty fields">>)
               /\ Get(req[r].response.body, "summary") = Get(req[r].parsedData, "summary")

C20_SummaryStored ==
    \A r \in Reqs :
        (Writes(r) /\ ForEntity(r) /\ C20_KnowledgeFallback(req[r]))
            => companies'[req[r].body.companyId]["enrichment_summary"]
                = IF "summary" \in DOMAIN req[r].parsedData
                  THEN <<req[r].parsedData["summary"]>>
                  ELSE RowOf(r)["enrichment_summary"]

MaxMatchCount == 2

\* One, in the hundredths that distances and similarities are counted in.
Unit == 100

\* part_007:47-48: the threshold and the count the profile page asks with.
MatchThreshold == 50

MatchCount == 5

\* The rows SpecMatch searches.
MatchIds == {"c1", "c2", "c3"}

\* seed.js:29-43: the columns a seeded row gets, next to the NULL
\* enrichment columns.
SeededRow(name, domain) ==
    [name |-> name, domain |-> domain, sector |-> "Fintech", stage |-> "Seed",
     location |-> "Berlin", description |-> "d"] @@ ShellRow

\* Embeddings, in two dimensions instead of 768, of whole-number length.
Vectors == {<<1, 0>>, <<0, 1>>, <<3, 4>>, <<4, 3>>, <<-1, 0>>}

Dot(a, b) == a[1] * b[1] + a[2] * b[2]

\* The Euclidean length of a vector of Vectors.
Norm(a) == CHOOSE n \in 0..Dot(a, a) : n * n = Dot(a, a)

\* initial_schema.sql:84: pgvector's a <=> b, the cosine distance
\* 1 - a.b / (|a| |b|), in hundredths.
CosineDistance(a, b) == Unit - (Unit * Dot(a, b)) \div (Norm(a) * Norm(b))

\* initial_schema.sql:78-84: the row returned for company c.
MatchRow(table, c, q) ==
    [id |-> c, name |-> table[c]["name"], domain |-> table[c]["domain"],
     sector |-> table[c]["sector"], stage |-> table[c]["stage"],
     similarity |-> Unit - CosineDistance(table[c]["embedding"][1], q.embedding)]

\* MatchWhere that keeps the rows at the threshold.
MatchWhereInclusive(table, q) ==
    {c \in DOMAIN table :
        /\ c # q.exclude
        /\ table[c]["embedding"] # None
        /\ Unit - CosineDistance(table[c]["embedding"][1], q.embedding) >= q.threshold}

\* initial_schema.sql:86-88: the where clause.
MatchWhere(table, q) ==
    {c \in DOMAIN table :
        /\ c # q.exclude
        /\ table[c]["embedding"] # None
        /\ Unit - CosineDistance(table[c]["embedding"][1], q.embedding) > q.threshold}

\* MatchOrderings that sorts by descending distance.
MatchOrderingsFarthestFirst(table, q) ==
    LET sel == MatchWhere(table, q)
    IN  {s \in [1..Cardinality(sel) -> sel] :
            /\ \A i, j \in DOMAIN s : i # j => s[i] # s[j]
            /\ \A i, j \in DOMAIN s :
                i < j => CosineDistance(table[s[i]]["embedding"][1], q.embedding)
                            >= CosineDistance(table[s[j]]["embedding"][1], q.embedding)}

\* initial_schema.sql:89: order by c.embedding <=> query_embedding: the
\* selected rows by ascending distance, rows at the same distance in any
\* order.
MatchOrderings(table, q) ==
    LET sel == MatchWhere(table, q)
    IN  {s \in [1..Cardinality(sel) -> sel] :
            /\ \A i, j \in DOMAIN s : i # j => s[i] # s[j]
            /\ \A i, j \in DOMAIN s :
                i < j => CosineDistance(table[s[i]]["embedding"][1], q.embedding)
                            <= CosineDistance(table[s[j]]["embedding"][1], q.embedding)}

\* initial_schema.sql:90: limit match_count
Limit(s, n) == SubSeq(s, 1, IF Len(s) < n THEN Len(s) ELSE n)

\* initial_schema.sql:62-91: the results match_companies can return.
MatchCompanies(table, q) ==
    {Limit([i \in DOMAIN s |-> MatchRow(table, s[i], q)], q.count) :
        s \in MatchOrderings(table, q)}

\* The thresholds asked with.
Thresholds == {0, MatchThreshold, 60, 96}

\* The arguments of a call.
MatchQueries ==
    [embedding : Vectors, threshold : Thresholds, count : 0..MaxMatchCount,
     exclude : MatchIds \cup {"c9"}]

\* The table: every row with an embedding or without one.
InitMatch ==
    /\ now = 0
    /\ companies \in
        {[c \in MatchIds |->
            [SeededRow(<<c>>, <<c, ".", "c", "o">>) EXCEPT !["embedding"] = e[c]]] :
            e \in [MatchIds -> {None} \cup {<<v>> : v \in Vectors}]}
    /\ geminiKey = TRUE
    /\ groqKey = TRUE
    /\ req = [r \in Reqs |-> IdleReq]
    /\ started = 0
    /\ trk = [t \in Trackers |-> IdleTrack]
    /\ match = NoMatch
    /\ norm = NoNorm
    /\ page = ClosedPage

\* A call of match_companies(query_embedding, match_threshold, match_count,
\* exclude_id) on the table; SpecMatch looks at one call per table.
CallMatch ==
    /\ match = NoMatch
    /\ \E q \in MatchQueries :
        \E rows \in MatchCompanies(companies, q) :
            match' = [query |-> <<q>>, rows |-> rows]
    /\ UNCHANGED <<now, companies, geminiKey, groqKey, req, started, trk, norm, page>>

\* part_007:44-50: the profile page of company c asks for the companies
\* similar to c.
FetchSimilar ==
    /\ match = NoMatch
    /\ \E c \in DOMAIN companies :
        /\ companies[c]["embedding"] # None
        /\ LET q == [embedding |-> companies[c]["embedding"][1],
                     threshold |-> MatchThreshold,
                     count |-> MatchCount,
                     exclude |-> c]
           IN  \E rows \in MatchCompanies(companies, q) :
                   match' = [query |-> <<q>>, rows |-> rows]
    /\ UNCHANGED <<now, companies, geminiKey, groqKey, req, started, trk, norm, page>>

NextMatch == CallMatch \/ FetchSimilar

SpecMatch == InitMatch /\ [][NextMatch]_vars

\* Company c satisfies the three conditions of the query q.
C15_Qualifies(c, q) ==
    /\ c # q.exclude
    /\ companies[c]["embedding"] # None
    /\ Unit - CosineDistance(companies[c]["embedding"][1], q.embedding) > q.threshold

C15_SimilarityOf(c, q) ==
    Unit - CosineDistance(companies[c]["embedding"][1], q.embedding)

\* C15: the rows of a call are companies that have an embedding, are not
\* the excluded id and whose similarity (1 - cosine distance) is strictly
\* above the threshold, each once and with that similarity; they are in
\* descending order of similarity; there are as many as qualify, or
\* match_count when more qualify, and then no row left out is more similar
\* than a row returned.
C15_ExactlyTheSimilar ==
    match.query # None =>
        LET q == match.query[1]
            rows == match.rows
            ids == {rows[i].id : i \in DOMAIN rows}
            qualifying == {c \in DOMAIN companies : C15_Qualifies(c, q)}
        IN  /\ ids \subseteq qualifying
            /\ Cardinality(ids) = Len(rows)
            /\ \A i \in DOMAIN rows : rows[i].similarity = C15_SimilarityOf(rows[i].id, q)
            /\ \A i, j \in DOMAIN rows : i < j => rows[i].similarity >= rows[j].similarity
            /\ Len(rows) = IF Cardinality(qualifying) < q.count
                           THEN Cardinality(qualifying) ELSE q.count
            /\ \A c \in qualifying \ ids :
                \A i \in DOMAIN rows : C15_SimilarityOf(c, q) <= rows[i].similarity

\* A call that returned one row and left out the excluded company, whose
\* similarity is above the threshold, and a company without an embedding.
C15_Witness ==
    /\ match.query # None
    /\ match.query[1].exclude = "c1"
    /\ companies["c1"]["embedding"] # None
    /\ C15_SimilarityOf("c1", match.query[1]) > match.query[1].threshold
    /\ \E c \in DOMAIN companies : companies[c]["embedding"] = None
    /\ Len(match.rows) = 1
    /\ match.rows[1].id # "c1"
    /\ match.rows[1].similarity > match.query[1].threshold

\* ---------------------------------------------------------- URL normalisers

\* Spaces put before and after a URL in SpecNorm.
MaxPad == 1

\* s.replace(/^https?:\/\//, '')
StripScheme(s) ==
    IF StartsWith(s, <<"h", "t", "t", "p", "s", ":", "/", "/">>) THEN SubSeq(s, 9, Len(s))
    ELSE IF StartsWith(s, <<"h", "t", "t", "p", ":", "/", "/">>) THEN SubSeq(s, 8, Len(s))
    ELSE s

\* s.split('/')[0]
FirstSegment(s) ==
    IF IndexOf(s, "/") = 0 THEN s ELSE SubSeq(s, 1, IndexOf(s, "/") - 1)

\* TrackDomain that keeps a leading "www.".
TrackDomainKeepWww(url) ==
    LET domain == Trim(url)
        target == IF StartsWith(domain, <<"h", "t", "t", "p">>)
                  THEN domain
                  ELSE <<"h", "t", "t", "p", "s", ":", "/", "/">> \o domain
    IN  IF UrlParses(target)
        THEN Hostname(target)
        ELSE FirstSegment(StripScheme(domain))

\* companies/route.ts:19-26: the domain the track route derives from a URL.
TrackDomain(url) ==
    LET domain == Trim(url)
        target == IF StartsWith(domain, <<"h", "t", "t", "p">>)
                  THEN domain
                  ELSE <<"h", "t", "t", "p", "s", ":", "/", "/">> \o domain
    IN  IF UrlParses(target)
        THEN StripWww(Hostname(target))
        ELSE FirstSegment(StripWww(StripScheme(domain)))

\* enrich/route.ts:127-135: the domain the enrichment route derives.
EnrichDomain(url) == CleanDomain(ScrapeUrl(url))

\* Host names: a plain one, one that starts with "http" and one that starts
\* with "www.".
Hosts ==
    { Str_a_co,
      <<"h", "t", "t", "p", ".", "c", "o">>,
      <<"w", "w", "w", ".", "c", "o">> }

\* The ways a client writes the URL of host h.
UrlForms(h) ==
    { h,
      h \o <<"/">>,
      <<"w", "w", "w", ".">> \o h,
      <<"h", "t", "t", "p", ":", "/", "/">> \o h,
      <<"h", "t", "t", "p", "s", ":", "/", "/">> \o h,
      <<"h", "t", "t", "p", "s", ":", "/", "/", "w", "w", "w", ".">> \o h,
      <<"h", "t", "t", "p", "s", ":", "/", "/", "w", "w", "w", ".">> \o h \o <<"/">> }

InitNorm ==
    /\ now = 0
    /\ companies = [c \in CompanyIds |-> ShellRow]
    /\ geminiKey = TRUE
    /\ groqKey = TRUE
    /\ req = [r \in Reqs |-> IdleReq]
    /\ started = 0
    /\ trk = [t \in Trackers |-> IdleTrack]
    /\ match = NoMatch
    /\ norm = NoNorm
    /\ page = ClosedPage

\* Both routes normalise one URL written for host h.
Normalise ==
    /\ norm = NoNorm
    /\ \E h \in Hosts :
        \E form \in UrlForms(h) :
            \E lead, trail \in 0..MaxPad :
                LET url == Rep(" ", lead) \o form \o Rep(" ", trail)
                IN  norm' = [url |-> <<url>>, host |-> h,
                             enrich |-> <<EnrichDomain(url)>>,
                             track |-> <<TrackDomain(url)>>,
                             again |-> None]
    /\ UNCHANGED <<now, companies, geminiKey, groqKey, req, started, trk, match, page>>

\* Each route normalises the domain it derived.
NormaliseAgain ==
    /\ norm # NoNorm
    /\ norm.again = None
    /\ norm' = [norm EXCEPT !.again =
                    <<[enrich |-> EnrichDomain(norm.enrich[1]),
                       track |-> TrackDomain(norm.track[1])]>>]
    /\ UNCHANGED <<now, companies, geminiKey, groqKey, req, started, trk, match, page>>

NextNorm == Normalise \/ NormaliseAgain

SpecNorm == InitNorm /\ [][NextNorm]_vars

\* Both routes derived the domain d from the URL, and derive d from d.
C17_Canonical(d) ==
    /\ norm.enrich = <<d>>
    /\ norm.track = <<d>>
    /\ norm.again # None
        => (norm.again[1].enrich = d /\ norm.again[1].track = d)

\* C17 as stated: for every host name h, each way of writing it yields the
\* canonical domain h in both routes, and normalising that domain again
\* yields it again.
C17_EveryHost == norm # NoNorm => C17_Canonical(norm.host)

\* C17, amended: for every host name h that does not itself begin with
\* "www.", h, h/, www.h, http://h, https://h, https://www.h and
\* https://www.h/, with or without spaces around, yield the canonical
\* domain h in both routes, and both routes yield h again from h.
C17_BareHost ==
    (norm # NoNorm /\ ~StartsWith(norm.host, <<"w", "w", "w", ".">>))
        => C17_Canonical(norm.host)

\* " https://www.a.co/ " gave a.co in both routes, and a.co gave a.co.
C17_Witness ==
    /\ norm # NoNorm
    /\ norm.url = << <<" ", "h", "t", "t", "p", "s", ":", "/", "/", "w", "w", "w", ".">>
                        \o Str_a_co \o <<"/", " ">> >>
    /\ norm.enrich = <<Str_a_co>>
    /\ norm.track = <<Str_a_co>>
    /\ norm.again = <<[enrich |-> Str_a_co, track |-> Str_a_co]>>

\* ------------------------------------------------------------- track route

\* Invocations of POST /api/companies started in one behaviour of SpecTrack.
MaxTracks == 3

Str_b_co == <<"b", ".", "c", "o">>

\* The request bodies of the track route: a URL and an optional name.
TrackBodies ==
    { [url |-> UrlA],
      [url |-> UrlB, name |-> <<"Acme Inc">>],
      [url |-> Str_b_co],
      [url |-> <<"h", "t", "t", "p", "s", ":", "/", "/", "w", "w", "w", ".">>
                    \o Str_b_co \o <<"/">>, name |-> <<"Beta">>],
      [url |-> <<>>],
      [name |-> <<"Beta">>] }

\* companies/route.ts:28-35
NewCompanyData(body, domain) ==
    [name |-> IF "name" \in DOMAIN body /\ body.name # <<>> THEN body.name ELSE domain,
     domain |-> domain,
     sector |-> "Uncategorized",
     stage |-> "Unknown",
     location |-> "Unknown",
     description |-> "Pending AI Enrichment"]

\* initial_schema.sql:6: id uuid default gen_random_uuid(): an id no row has.
NewIds == <<"n1", "n2", "n3", "n4", "n5", "n6">>

FreshId(table) ==
    NewIds[CHOOSE i \in DOMAIN NewIds :
               /\ NewIds[i] \notin DOMAIN table
               /\ \A j \in 1..(i - 1) : NewIds[j] \in DOMAIN table]

\* Upsert that inserts without looking for the domain.
UpsertAlwaysInsert(table, data) ==
    [table |-> (FreshId(table) :> (data @@ ShellRow)) @@ table, id |-> FreshId(table)]

\* companies/route.ts:37-41 with initial_schema.sql:27:
\* upsert(data, { onConflict: 'domain' }): insert ... on conflict (domain)
\* do update set every column of data; the other columns of a row in
\* conflict keep their value, a new row gets a fresh id and NULLs.
Upsert(table, data) ==
    LET hit == {c \in DOMAIN table : table[c]["domain"] = data["domain"]}
    IN  IF hit # {}
        THEN LET c == CHOOSE x \in hit : TRUE
             IN  [table |-> [table EXCEPT ![c] =
                                [col \in DOMAIN table[c] |->
                                    IF col \in DOMAIN data THEN data[col] ELSE table[c][col]]],
                  id |-> c]
        ELSE [table |-> (FreshId(table) :> (data @@ ShellRow)) @@ table,
              id |-> FreshId(table)]

\* The seeded company, before and after an enrichment run.
SeededCompany == SeededRow(<<"Acme">>, Str_a_co)

EnrichedCompany ==
    ApplyUpdate([c \in CompanyIds |-> SeededCompany], "c1",
        UpdatePayload(EnrichedData(GoodA, SourcesOf(UrlA, 0, "gemini")),
                      <<EmbeddingOf(EmbeddingText(GoodA))>>, 0))["c1"]

InitTrack ==
    /\ now = 0
    /\ companies \in {[c \in CompanyIds |-> SeededCompany],
                      [c \in CompanyIds |-> EnrichedCompany]}
    /\ geminiKey = TRUE
    /\ groqKey = TRUE
    /\ req = [r \in Reqs |-> IdleReq]
    /\ started = 0
    /\ trk = [t \in Trackers |-> IdleTrack]
    /\ match = NoMatch
    /\ norm = NoNorm
    /\ page = ClosedPage

\* companies/route.ts:12-26: the body is read, the URL is required and the
\* domain is derived from it.
TrackStart(t) ==
    /\ trk[t].pc = "idle"
    /\ \A q \in Trackers : q < t => trk[q].pc # "idle"
    /\ started < MaxTracks
    /\ \E body \in TrackBodies :
        trk' = [trk EXCEPT ![t] =
            IF "url" \notin DOMAIN body \/ body.url = <<>>
            THEN [@ EXCEPT !.body = body, !.pc = "done",
                           !.response = Response(400, ErrorBody(<<"URL is required">>))]
            ELSE [@ EXCEPT !.body = body, !.pc = "upsert",
                           !.domain = TrackDomain(body.url)]]
    /\ started' = started + 1
    /\ UNCHANGED <<now, companies, geminiKey, groqKey, req, match, norm, page>>

\* companies/route.ts:28-51: the upsert, and the response: the row, or
\* status 500 when the store reports an error.
TrackUpsert(t) ==
    /\ trk[t].pc = "upsert"
    /\ \E storeOk \in BOOLEAN :
        LET up == Upsert(companies, NewCompanyData(trk[t].body, trk[t].domain))
        IN  IF storeOk
            THEN /\ companies' = up.table
                 /\ trk' = [trk EXCEPT ![t] =
                        [@ EXCEPT !.pc = "done",
                                  !.response = Response(200,
                                      [success |-> TRUE,
                                       company |-> ("id" :> up.id) @@ up.table[up.id]])]]
            ELSE /\ companies' = companies
                 /\ trk' = [trk EXCEPT ![t] =
                        [@ EXCEPT !.pc = "done",
                                  !.response = Response(500, ErrorBody(<<"store error">>))]]
    /\ UNCHANGED <<now, geminiKey, groqKey, req, started, match, norm, page>>

\* The response is delivered; the handler is free for the next request.
TrackRespond(t) ==
    /\ trk[t].pc = "done"
    /\ trk' = [trk EXCEPT ![t] = IdleTrack]
    /\ UNCHANGED <<now, companies, geminiKey, groqKey, req, started, match, norm, page>>

NextTrack ==
    \/ \E t \in Trackers : TrackStart(t)
    \/ \E t \in Trackers : TrackUpsert(t)
    \/ \E t \in Trackers : TrackRespond(t)

SpecTrack == InitTrack /\ [][NextTrack]_vars

\* The upsert of t is accepted in this step.
TrackWrites(t) ==
    /\ trk[t].pc = "upsert"
    /\ trk'[t].pc = "done"
    /\ trk'[t].response.status = 200

\* The rows that hold the domain d.
RowsOfDomain(d) == {c \in DOMAIN companies : companies[c]["domain"] = d}

C18_DomainUnique ==
    \A c, d \in DOMAIN companies :
        c # d => companies[c]["domain"] # companies[d]["domain"]

C18_UpsertStep ==
    \A t \in Trackers :
        TrackWrites(t) =>
            LET id == trk'[t].response.body.company["id"]
            IN  /\ companies'[id]["domain"] = trk[t].domain
                /\ trk'[t].response.body.company["domain"] = trk[t].domain
                /\ \A c \in DOMAIN companies :
                    companies'[c]["domain"] = companies[c]["domain"]
                /\ IF RowsOfDomain(trk[t].domain) # {}
                   THEN /\ id \in RowsOfDomain(trk[t].domain)
                        /\ DOMAIN companies' = DOMAIN companies
                   ELSE /\ id \notin DOMAIN companies
                        /\ DOMAIN companies' = DOMAIN companies \cup {id}

\* C18: no two rows ever hold the same domain; an accepted track call for
\* a domain that a row holds returns that row's id and adds no row, so the
\* second of two calls for one URL leaves the set of entities as the first
\* left it; a call for a new domain adds exactly one row.
C18_NoDuplicates == []C18_DomainUnique /\ [][C18_UpsertStep]_vars

\* Two overlapping track calls that wrote b.co in two ways both got the one
\* new row, next to the seeded one.
C18_Witness ==
    /\ trk[1].pc = "done" /\ trk[2].pc = "done"
    /\ trk[1].domain = Str_b_co /\ trk[2].domain = Str_b_co
    /\ trk[1].body.url # trk[2].body.url
    /\ trk[1].response.status = 200 /\ trk[2].response.status = 200
    /\ trk[1].response.body.company["id"] = "n1"
    /\ trk[2].response.body.company["id"] = "n1"
    /\ DOMAIN companies = {"c1", "n1"}

\* C19 as stated: an accepted track call for a domain that is already
\* stored leaves every stored row as it was.
C19_TrackLeavesFields ==
    [][\A t \in Trackers :
        (TrackWrites(t) /\ RowsOfDomain(trk[t].domain) # {})
            => companies' = companies]_vars

\* ------------------------------------------------------------ profile page

\* Calls of handleEnrich on one open page in one behaviour of SpecPage.
MaxEnrichClicks == 3

\* The ids a profile page is opened for: a company, and an id no row has.
PageIds == {"c1", "c9"}

\* part_007:25-33: the state of the component when it mounts; the effect of
\* part_007:74-75 has called loadInitialData, which waits for the company.
\* api lists the requests to /api/enrich that handleEnrich has sent.
MountedPage(id) ==
    [open |-> TRUE, id |-> id, status |-> "idle", loadingDb |-> TRUE,
     company |-> None, errorMsg |-> "", load |-> "company", api |-> <<>>]

\* HandleEnrich that does not show the loading status.
HandleEnrichSilently(pg) ==
    [pg EXCEPT !.errorMsg = "",
               !.api = Append(@, [state |-> "sent", ok |-> FALSE, error |-> ""])]

\* part_007:119-130: handleEnrich up to its fetch: the status is loading
\* and the request is on its way.
HandleEnrich(pg) ==
    [pg EXCEPT !.status = "loading",
               !.errorMsg = "",
               !.api = Append(@, [state |-> "sent", ok |-> FALSE, error |-> ""])]

\* part_007:106-117: the profile is rendered, with its buttons.
Rendered(pg) == pg.open /\ ~pg.loadingDb /\ pg.company # None

\* part_007:269-270: the button with id enrich-btn is in the document.
EnrichButton(pg) == Rendered(pg) /\ pg.status = "idle"

\* SyncButton that stays in the document while the status is loading.
SyncButtonWhileLoading(pg) == Rendered(pg) /\ pg.status \in {"success", "error", "loading"}

\* part_007:285-286, 305-312: Sync Latest and the retry link are in the
\* document.
SyncButton(pg) == Rendered(pg) /\ pg.status \in {"success", "error"}

\* What /api/enrich answers for a request of the page: status 200 after it
\* updated the row from a provider's reply, or an error status and message.
EnrichAnswers ==
    { [ok |-> TRUE, reply |-> <<GoodA>>, error |-> ""],
      [ok |-> TRUE, reply |-> <<NoSummary>>, error |-> ""],
      [ok |-> FALSE, reply |-> None, error |-> "Rate Limit Exceeded"],
      [ok |-> FALSE, reply |-> None, error |-> "Both Gemini and Groq failed"] }

InitPage ==
    /\ now = 0
    /\ companies \in {[c \in CompanyIds |-> SeededCompany],
                      [c \in CompanyIds |-> EnrichedCompany]}
    /\ geminiKey = TRUE
    /\ groqKey = TRUE
    /\ req = [r \in Reqs |-> IdleReq]
    /\ started = 0
    /\ trk = [t \in Trackers |-> IdleTrack]
    /\ match = NoMatch
    /\ norm = NoNorm
    /\ page = ClosedPage

\* The profile page of a company is opened.
OpenPage ==
    /\ ~page.open
    /\ \E id \in PageIds : page' = MountedPage(id)
    /\ UNCHANGED <<now, companies, geminiKey, groqKey, req, started, trk, match, norm>>

\* LoadCompany that shows success for every row it gets.
LoadCompanyAlwaysSuccess ==
    /\ page.open
    /\ page.load = "company"
    /\ \E readOk \in BOOLEAN :
        page' = IF readOk /\ page.id \in DOMAIN companies
                THEN [page EXCEPT
                        !.company = <<companies[page.id]>>,
                        !.status = "success",
                        !.load = "rest"]
                ELSE [page EXCEPT !.load = "rest"]
    /\ UNCHANGED <<now, companies, geminiKey, groqKey, req, started, trk, match, norm>>

\* part_007:38-53: loadInitialData gets the company: the row, or null when
\* the read fails or no row has the id.
LoadCompany ==
    /\ page.open
    /\ page.load = "company"
    /\ \E readOk \in BOOLEAN :
        page' = IF readOk /\ page.id \in DOMAIN companies
                THEN [page EXCEPT
                        !.company = <<companies[page.id]>>,
                        !.status = IF companies[page.id]["enrichment_summary"] # None
                                   THEN "success" ELSE @,
                        !.load = "rest"]
                ELSE [page EXCEPT !.load = "rest"]
    /\ UNCHANGED <<now, companies, geminiKey, groqKey, req, started, trk, match, norm>>

\* part_007:55-71: the lists, the memberships and the note have arrived.
LoadRest ==
    /\ page.open
    /\ page.load = "rest"
    /\ page' = [page EXCEPT !.loadingDb = FALSE, !.load = "none"]
    /\ UNCHANGED <<now, companies, geminiKey, groqKey, req, started, trk, match, norm>>

\* part_007:270: a click on Vector Enrich.
ClickEnrich ==
    /\ EnrichButton(page)
    /\ Len(page.api) < MaxEnrichClicks
    /\ page' = HandleEnrich(page)
    /\ UNCHANGED <<now, companies, geminiKey, groqKey, req, started, trk, match, norm>>

\* part_007:85-93: the key e, outside a text field: the handler clicks the
\* element enrich-btn when the document has one.
PressE ==
    /\ page.open
    /\ Len(page.api) < MaxEnrichClicks
    /\ page' = IF EnrichButton(page) THEN HandleEnrich(page) ELSE page
    /\ UNCHANGED <<now, companies, geminiKey, groqKey, req, started, trk, match, norm>>

\* part_007:286, 312: a click on Sync Latest or on the retry link:
\* handleEnrich(true).
ClickSync ==
    /\ SyncButton(page)
    /\ Len(page.api) < MaxEnrichClicks
    /\ page' = HandleEnrich(page)
    /\ UNCHANGED <<now, companies, geminiKey, groqKey, req, started, trk, match, norm>>

\* The route answers a request of the page; a 200 follows its update of
\* the company's row.
ServerAnswers ==
    /\ page.open
    /\ \E i \in DOMAIN page.api :
        /\ page.api[i].state = "sent"
        /\ \E a \in EnrichAnswers :
            /\ page' = [page EXCEPT !.api[i] =
                            [state |-> "answered", ok |-> a.ok, error |-> a.error]]
            /\ companies' =
                IF a.ok
                THEN ApplyUpdate(companies, page.id,
                        UpdatePayload(
                            EnrichedData(a.reply[1],
                                SourcesOf(page.company[1]["domain"], now, "gemini")),
                            None, now))
                ELSE companies
    /\ UNCHANGED <<now, geminiKey, groqKey, req, started, trk, match, norm>>

\* part_007:132-146: handleEnrich goes on with the answer: an error answer
\* is thrown and caught, an ok answer starts loadInitialData.
ReceiveAnswer ==
    /\ page.open
    /\ \E i \in DOMAIN page.api :
        /\ page.api[i].state = "answered"
        /\ page' = IF page.api[i].ok
                   THEN [page EXCEPT !.api[i].state = "handled",
                                     !.loadingDb = TRUE,
                                     !.load = "company"]
                   ELSE [page EXCEPT !.api[i].state = "handled",
                                     !.errorMsg = page.api[i].error,
                                     !.status = "error"]
    /\ UNCHANGED <<now, companies, geminiKey, groqKey, req, started, trk, match, norm>>

NextPage ==
    \/ OpenPage
    \/ LoadCompany
    \/ LoadRest
    \/ ClickEnrich
    \/ PressE
    \/ ClickSync
    \/ ServerAnswers
    \/ ReceiveAnswer

SpecPage == InitPage /\ [][NextPage]_vars

\* The status of the open page changes in this step from a to b.
C16_Changes(a, b) ==
    /\ page.open /\ page'.open
    /\ page.status = a /\ page'.status = b

C16_Listed ==
    { <<"idle", "loading">>, <<"loading", "success">>, <<"loading", "error">>,
      <<"error", "loading">>, <<"success", "loading">> }

\* C16 as stated: the status changes only from idle to loading, from
\* loading to success or error, and from error or success to loading.
C16_OnlyListed ==
    [][(page.open /\ page'.open /\ page'.status # page.status)
            => <<page.status, page'.status>> \in C16_Listed]_vars

\* C16, amended: the status changes only from idle to loading, from
\* loading to success or error, from error or success to loading, and from
\* idle to success; that last change happens only when the load of a newly
\* opened page finds a stored summary, before any request was sent.
C16_ListedOrStored ==
    [][(page.open /\ page'.open /\ page'.status # page.status)
            => \/ <<page.status, page'.status>> \in C16_Listed
               \/ /\ C16_Changes("idle", "success")
                  /\ page.load = "company"
                  /\ page.api = <<>>
                  /\ companies[page.id]["enrichment_summary"] # None]_vars

\* The page went from idle to loading and error, was retried, and is in
\* success after the second answer.
C16_Witness ==
    /\ page.open
    /\ page.status = "success"
    /\ Len(page.api) = 2
    /\ page.api[1] = [state |-> "handled", ok |-> FALSE, error |-> "Rate Limit Exceeded"]
    /\ page.api[2].state = "handled"
    /\ page.api[2].ok


\* ------------------------------------------------- services that never answer

\* Invocations SpecFaults starts, and how far its clock runs.
MaxFaultRuns == 2

MaxFaultTime == 1

\* NeverAnswers with a reader whose fetch has no timeout either.
NeverAnswersAnywhere(r) ==
    /\ \/ req[r].pc = "scrape"
       \/ req[r].pc = "extract" /\ (geminiKey \/ groqKey)
       \/ req[r].pc = "groq" /\ groqKey
       \/ req[r].pc = "embed"
    /\ req' = [req EXCEPT ![r] =
            [Called(@, IF req[r].pc = "scrape" THEN "jina"
                       ELSE IF req[r].pc = "embed" THEN "embed"
                       ELSE IF req[r].pc = "extract" /\ geminiKey THEN "gemini"
                       ELSE "groq")
                EXCEPT !.pc = "waiting"]]
    /\ UNCHANGED <<now, companies, geminiKey, groqKey, started>>
    /\ UNCHANGED outside

\* route.ts:67-79, 187, 223: the Groq fetch, generateContent and
\* embedContent are awaited without a signal or a timeout; when the service
\* never answers, the await never settles and the handler stays where it
\* is.  The reader's fetch carries AbortSignal.timeout(20000) (route.ts:146):
\* a reader that never answers is the outcome "threw" of Scrape.
NeverAnswers(r) ==
    /\ \/ req[r].pc = "extract" /\ (geminiKey \/ groqKey)
       \/ req[r].pc = "groq" /\ groqKey
       \/ req[r].pc = "embed"
    /\ req' = [req EXCEPT ![r] =
            [Called(@, IF req[r].pc = "embed" THEN "embed"
                       ELSE IF req[r].pc = "extract" /\ geminiKey THEN "gemini"
                       ELSE "groq")
                EXCEPT !.pc = "waiting"]]
    /\ UNCHANGED <<now, companies, geminiKey, groqKey, started>>
    /\ UNCHANGED outside

\* route.ts:96: the client gives up its request while the handler runs;
\* req.signal fires, and no line of the handler looks at it.
Abort(r) ==
    /\ req[r].pc \notin {"idle", "done"}
    /\ ~req[r].aborted
    /\ req' = [req EXCEPT ![r].aborted = TRUE]
    /\ UNCHANGED <<now, companies, geminiKey, groqKey, started>>
    /\ UNCHANGED outside

\* One step of the handler r after its request was accepted.
HandlerStep(r) ==
    \/ Gate(r, {TRUE})
    \/ Scrape(r, RaceJinaOutcomes)
    \/ ExtractGemini(r, RaceGeminiOutcomes)
    \/ GroqFallback(r, RaceGroqOutcomes)
    \/ GroqDirect(r, RaceGroqOutcomes)
    \/ Embed(r)
    \/ Persist(r)
    \/ Respond(r)

NextFaults ==
    \/ \E r \in Serial : Start(r, RaceBodies, MaxFaultRuns)
    \/ \E r \in Serial : HandlerStep(r)
    \/ \E r \in Serial : NeverAnswers(r)
    \/ \E r \in Serial : Abort(r)
    \/ Tick(MaxFaultTime)

SpecFaults == Init /\ [][NextFaults]_vars

\* The runtime resumes a handler whenever the promise it awaits has
\* settled: a step of the handler that stays possible is taken.
SpecFaultsFair == SpecFaults /\ \A r \in Serial : WF_vars(HandlerStep(r))

C22_AbortStops ==
    [][\A r \in Serial :
        (req[r].aborted /\ req[r].pc # "done")
            => /\ req'[r].calls = req[r].calls
               /\ companies' = companies]_vars


\* The call r made last.
LastCall(r) == req[r].calls[Len(req[r].calls)]

C21_OnlyUnboundedCallsHang ==
    \A r \in Serial :
        req[r].pc = "waiting" => LastCall(r) \in {"gemini", "groq", "embed"}

C22_AbortIgnored ==
    [][\A r \in Serial :
        (req[r].aborted /\ Leaves(r, "persist") /\ req'[r].dbError = None)
            => /\ Writes(r)
               /\ req'[r].calls = Append(req[r].calls, "update")
               /\ companies'[req[r].body.companyId]["enrichment_summary"]
                    = <<req[r].parsedData["summary"]>>
               /\ companies'[req[r].body.companyId]["last_enriched_at"] = <<now>>]_vars

\* An invocation whose request was aborted has written the record.
C22_Witness ==
    \E r \in Serial :
        /\ req[r].aborted
        /\ Done(r)
        /\ Status(r) = 200
        /\ LastCall(r) = "update"
        /\ RowOf(r)["enrichment_summary"] = <<req[r].parsedData["summary"]>>


\* ----------------------------------------------------------- order of stages

\* The place of each service in the handler: gate read, reader, primary,
\* secondary, embedding, update.
C23_Rank(x) ==
    CASE x = "select" -> 1
      [] x = "jina" -> 2
      [] x = "gemini" -> 3
      [] x = "groq" -> 4
      [] x = "embed" -> 5
      [] x = "update" -> 6

C23_CallsInOrder ==
    \A r \in Reqs : \A i, j \in 1..Len(req[r].calls) :
        i < j => C23_Rank(req[r].calls[i]) < C23_Rank(req[r].calls[j])

C23_EachAfterThePrior ==
    \A r \in Reqs :
        LET calls == req[r].calls
        IN  /\ Len(calls) >= 1 => calls[1] = "select"
            /\ Len(calls) >= 2 => calls[2] = "jina"
            /\ Has(calls, "embed") => req[r].enrichedData # None
            /\ Has(calls, "update")
                => /\ req[r].enrichedData # None
                   /\ Has(calls, "gemini") \/ Has(calls, "groq")
                   /\ geminiKey => Has(calls, "embed")
            /\ req[r].response # None => req[r].pc = "done"
            /\ (req[r].response # None /\ req[r].response.status = 200)
                => calls[Len(calls)] = "update"

\* C23: within one invocation the calls are made in the order gate read,
\* acquisition, primary extraction, secondary extraction, embedding,
\* update, each at most once; the embedding is requested only after an
\* extraction succeeded, the update is made only after the embedding
\* attempt (when there is one to make) and an extraction, no call follows
\* the update, and the response comes last.
C23_StagesInOrder == C23_CallsInOrder /\ C23_EachAfterThePrior

\* An invocation went through every stage: the primary failed, the
\* secondary succeeded, the embedding was attempted and the row updated.
C23_Witness ==
    \E r \in Reqs :
        /\ Done(r)
        /\ Status(r) = 200
        /\ req[r].calls = <<"select", "jina", "gemini", "groq", "embed", "update">>


\* ------------------------------------------------------- scores out of range

\* Invocations SpecScore starts, and how far its clock runs.
MaxScoreRuns == 2

MaxScoreTime == 2

\* Replies whose thesisScore is at an end of the range, or outside it: the
\* schema asks for 0-100 (route.ts:31-34) and nothing in the handler
\* checks what the provider returned.
ScoreFull == [GoodA EXCEPT !.thesisScore = 100]

ScoreTooHigh == [GoodA EXCEPT !.thesisScore = 150]

ScoreZero == [GoodB EXCEPT !.thesisScore = 0]

ScoreNegative == [GoodB EXCEPT !.thesisScore = 0 - 1]

ScoreGeminiOutcomes ==
    { [threw |-> TRUE, msg |-> "gemini unavailable", text |-> NotJson] }
        \cup { [threw |-> FALSE, msg |-> "", text |-> JsonText(o)] :
                    o \in {GoodA, ScoreFull, ScoreTooHigh} }

ScoreGroqOutcomes ==
    { [ok |-> TRUE, content |-> <<JsonText(o)>>] :
        o \in {ScoreZero, ScoreNegative} }

NextScore ==
    \/ \E r \in Serial : Start(r, RaceBodies, MaxScoreRuns)
    \/ \E r \in Serial : Gate(r, {TRUE})
    \/ \E r \in Serial : Scrape(r, {j \in JinaOutcomes : j.ok /\ j.text = PageLong})
    \/ \E r \in Serial : ExtractGemini(r, ScoreGeminiOutcomes)
    \/ \E r \in Serial : GroqFallback(r, ScoreGroqOutcomes)
    \/ \E r \in Serial : GroqDirect(r, ScoreGroqOutcomes)
    \/ \E r \in Serial : Embed(r)
    \/ \E r \in Serial : Persist(r)
    \/ \E r \in Serial : Respond(r)
    \/ Tick(MaxScoreTime)

SpecScore == Init /\ [][NextScore]_vars

C24_StoredInRange ==
    \A c \in DOMAIN companies :
        \/ companies[c]["thesis_score"] = None
        \/ companies[c]["thesis_score"][1] \in 0..100

C24_PersistStep ==
    \A r \in Reqs :
        Leaves(r, "persist") =>
            IF req[r].parsedData["thesisScore"] \in 0..100
            THEN Writes(r) =>
                    companies'[req[r].body.companyId]["thesis_score"]
                        = <<req[r].parsedData["thesisScore"]>>
            ELSE /\ req'[r].pc = "done"
                 /\ req'[r].response.status = 500
                 /\ req'[r].response.body.error[1]
                        = "Failed to save enrichment to database: "
                 /\ companies' = companies

\* C24: in every reachable state every company's stored thesis score is
\* null or an integer from 0 to 100; a run whose extracted score lies
\* outside that range ends with the status-500 persistence error and
\* leaves the row as it was, and a score in the range is stored as
\* extracted.
C24_ScoreInRange == []C24_StoredInRange /\ [][C24_PersistStep]_vars

\* A run that extracted a score outside the range ended with the
\* persistence error; the row still holds the score of an earlier run.
C24_Witness ==
    \E r \in Reqs :
        /\ Done(r)
        /\ Status(r) = 500
        /\ req[r].parsedData # None
        /\ req[r].parsedData["thesisScore"] \notin 0..100
        /\ req[r].dbError # None
        /\ RowOf(r)["thesis_score"] # None
        /\ RowOf(r)["thesis_score"][1] \in {0, 100}


\* ------------------------------------------------------ success and the store

\* C25 as stated: a success response is returned only when the run's
\* update modified an existing row: never for an id that matches no row,
\* and the stored summary and sources are then those of the response.
C25_SuccessMeansStored ==
    [][\A r \in Reqs :
        Writes(r)
            => /\ ForEntity(r)
               /\ "summary" \in DOMAIN req'[r].response.body
               /\ companies'[req[r].body.companyId]["enrichment_summary"]
                    = <<req'[r].response.body["summary"]>>
               /\ companies'[req[r].body.companyId]["sources"]
                    = <<req'[r].response.body["sources"]>>]_vars

C25_PersistStep ==
    \A r \in Reqs :
        (Leaves(r, "persist") /\ req'[r].dbError = None) =>
            LET body == req'[r].response.body
                id == req[r].body.companyId
            IN  /\ req'[r].response.status = 200
                /\ body = req[r].enrichedData
                /\ IF id \in DOMAIN companies
                   THEN /\ companies'[id]["sources"] = <<body["sources"]>>
                        /\ companies'[id]["enrichment_summary"] =
                             IF "summary" \in DOMAIN body
                             THEN <<body["summary"]>>
                             ELSE companies[id]["enrichment_summary"]
                   ELSE companies' = companies

\* C25, amended: the success payload is returned whenever the update
\* reports no error.  For an id that matches a row, right after the
\* response the stored sources are those of the response, and the stored
\* summary is the response's when it carries one and the earlier one
\* otherwise; for an id that matches no row the update changes nothing and
\* the response is the success payload all the same.
C25_SuccessMeansNoStoreError == [][C25_PersistStep]_vars

\* A request for an id no row has was answered with the success payload;
\* the table holds no row of that id.
C25_Witness ==
    \E r \in Reqs :
        /\ Done(r)
        /\ Status(r) = 200
        /\ req[r].body.companyId = "c9"
        /\ ~ForEntity(r)
        /\ req[r].response.body = req[r].enrichedData
        /\ "summary" \in DOMAIN req[r].response.body
        /\ req[r].calls[Len(req[r].calls)] = "update"
        /\ \A c \in DOMAIN companies : companies[c] = ShellRow


\* ------------------------------------------------------------ failed runs

C26_OnlySuccessWrites ==
    \/ companies' = companies
    \/ \E r \in Reqs : Writes(r)

C26_ErrorStep ==
    \A r \in Reqs :
        (req[r].pc # "done" /\ req'[r].pc = "done"
            /\ req'[r].response.status \in {400, 429, 500})
                => companies' = companies

\* With one invocation at a time, the timestamp of the row after a run
\* that ended in an error is the one the gate of that run read.
C26_TimestampAsRead ==
    \A r \in Serial :
        (Done(r) /\ Status(r) # 200 /\ req[r].cData # None)
            => /\ ForEntity(r)
               /\ RowOf(r)["last_enriched_at"] = req[r].cData[1]

\* C26: an invocation that ends with an error response (400, 429 or 500)
\* changes no field of any row, the last-enriched timestamp included: the
\* table changes only in the step in which an update is accepted and the
\* response is 200.  A failed run therefore leaves the timestamp its gate
\* read, and does not start the one-hour window.
C26_ErrorLeavesRecord ==
    /\ []C26_TimestampAsRead
    /\ [][C26_OnlySuccessWrites /\ C26_ErrorStep]_vars

\* Every stage of a run on a never-enriched row succeeded but the update:
\* the response is 500 and the row is still the seeded one, timestamp null.
C26_Witness ==
    \E r \in Serial :
        /\ Done(r)
        /\ Status(r) = 500
        /\ req[r].calls[Len(req[r].calls)] = "update"
        /\ req[r].cData = <<None>>
        /\ RowOf(r) = ShellRow


\* ------------------------------------------------- embedding and its summary

\* The vector computed from a summary and a keyword list.
C27_VectorOf(summary, keywords) == [vectorOf |-> <<summary, keywords>>]

\* C27 as stated: in every reachable state a non-null stored embedding was
\* computed from the summary and keywords stored on the same row.
C27_EmbeddingOfStored ==
    \A c \in DOMAIN companies :
        companies[c]["embedding"] # None
            => /\ companies[c]["enrichment_summary"] # None
               /\ companies[c]["keywords"] # None
               /\ companies[c]["embedding"][1]
                    = C27_VectorOf(companies[c]["enrichment_summary"][1],
                                   companies[c]["keywords"][1])

C27_WriteStep ==
    \A r \in Reqs :
        (Writes(r) /\ ForEntity(r)) =>
            LET id == req[r].body.companyId
                parsed == req[r].parsedData
            IN  companies'[id]["embedding"] =
                    IF req[r].embedding # None
                    THEN <<C27_VectorOf(Get(parsed, "summary"),
                             IF "keywords" \in DOMAIN parsed
                             THEN parsed["keywords"] ELSE <<>>)>>
                    ELSE companies[id]["embedding"]

\* C27, amended: an accepted update whose run computed an embedding stores
\* the embedding of that run's extracted summary and keywords; an accepted
\* update of a run whose embedding step failed or was skipped replaces the
\* summary and keywords and leaves the stored embedding as it was.  A
\* stored embedding is thus that of the most recent run whose embedding
\* succeeded, not always that of the summary and keywords now stored.
C27_EmbeddingOfLastEmbeddedRun == [][C27_WriteStep]_vars

\* The row holds the summary of a later run and the embedding of an
\* earlier one.
C27_Witness ==
    \E c \in DOMAIN companies :
        /\ companies[c]["embedding"] # None
        /\ companies[c]["enrichment_summary"] = <<"sB">>
        /\ companies[c]["embedding"][1].vectorOf[1] = "sA"


\* ----------------------------------------------------------- the open gate

C28_GateStep ==
    \A r \in Reqs :
        Leaves(r, "gate") =>
            LET cData == req'[r].cData
            IN  IF cData # None /\ cData[1] # None /\ now - cData[1][1] < Hour
                THEN req'[r].pc = "done" /\ req'[r].response.status = 429
                ELSE req'[r].pc = "scrape" /\ req'[r].response = None

\* An invocation whose gate read nothing is never answered 429, and past
\* the acquisition stage it has called the reader, past the extraction
\* stage a provider (when a key is configured).
C28_UnreadGoesOn ==
    \A r \in Reqs :
        (Has(req[r].calls, "select") /\ req[r].cData = None)
            => /\ req[r].response # None => req[r].response.status # 429
               /\ req[r].pc # "scrape" => Has(req[r].calls, "jina")
               /\ req[r].pc \notin {"scrape", "extract"}
                    => \/ Has(req[r].calls, "gemini")
                       \/ Has(req[r].calls, "groq")
                       \/ ~geminiKey /\ ~groqKey

\* C28: the gate answers 429 only when its read returned a last-enriched
\* timestamp less than one hour old; when the read returned an error or no
\* row the invocation goes on to the acquisition, and the reader and an
\* extraction provider are called.
C28_FailOpen == []C28_UnreadGoesOn /\ [][C28_GateStep]_vars

\* The stored timestamp is less than an hour old, the gate's read failed,
\* and the invocation called the reader and the primary provider.
C28_Witness ==
    \E r \in Reqs :
        /\ req[r].cData = None
        /\ ForEntity(r)
        /\ StoredFresh(req[r].body.companyId)
        /\ Has(req[r].calls, "jina")
        /\ Has(req[r].calls, "gemini")


\* --------------------------------------------------- the status of the page

\* The browser resumes an async function of the page once the promise it
\* awaits has settled, and the reads of the store settle: the steps of
\* loadInitialData and the continuation of handleEnrich are taken when
\* they are possible.  Nothing makes the user click or the server answer.
SpecPageFair ==
    /\ SpecPage
    /\ WF_vars(LoadCompany)
    /\ WF_vars(LoadRest)
    /\ WF_vars(ReceiveAnswer)

\* The i-th request of the page is in the state st.
C29_Request(i, st) ==
    IF page.open /\ i \in DOMAIN page.api THEN page.api[i].state = st ELSE FALSE

\* The i-th request of the page has been answered, with a 2xx status (ok)
\* or another, and handleEnrich has not gone on yet.
C29_Answered(i, ok) ==
    IF page.open /\ i \in DOMAIN page.api
    THEN page.api[i].state = "answered" /\ page.api[i].ok = ok
    ELSE FALSE

\* The status the open page shows.
C29_Status == IF page.open THEN page.status ELSE "closed"

\* The page is shown again after the i-th request was handled.
C29_Reloaded(i) ==
    IF page.open /\ i \in DOMAIN page.api
    THEN /\ page.api[i].state = "handled"
         /\ ~page.loadingDb
         /\ page.status \in {"loading", "success"}
    ELSE FALSE

C29_ReceiveStep ==
    \A i \in 1..MaxEnrichClicks :
        (C29_Request(i, "answered") /\ page'.api[i].state = "handled") =>
            IF page.api[i].ok
            THEN /\ page'.status = "loading"
                 /\ page'.loadingDb
                 /\ page'.load = "company"
            ELSE /\ page'.status = "error"
                 /\ page'.errorMsg = page.api[i].error

C29_ReloadStep ==
    (page.open /\ page.load = "company" /\ page.status = "loading"
        /\ page'.load = "rest")
        => /\ page'.status \in {"loading", "success"}
           /\ page'.status = "success"
                => /\ page'.company = <<companies[page.id]>>
                   /\ companies[page.id]["enrichment_summary"] # None
           /\ companies[page.id]["enrichment_summary"] = None
                => page'.status = "loading"

C30_InFlight ==
    IF page.open
    THEN {i \in DOMAIN page.api : page.api[i].state \in {"sent", "answered"}}
    ELSE {}

\* C30: from one open profile page at most one request to /api/enrich is
\* under way at any time, and while the status is loading no click and no
\* press of e sends another, for every order of user events and answers.
C30_OneInFlight ==
    /\ [](Cardinality(C30_InFlight) <= 1)
    /\ [][(page.open /\ page.status = "loading")
            => Len(page'.api) = Len(page.api)]_vars

\* The page has sent a request after an earlier one was answered and
\* handled; the status is loading and that one request is under way.
C30_Witness ==
    /\ page.open
    /\ page.status = "loading"
    /\ Len(page.api) >= 2
    /\ page.api[1].state = "handled"
    /\ Cardinality(C30_InFlight) = 1

=============================================================================
